---- MODULE Spec2Model ----
(***************************************************************************)
(* Storage subsystem of openmls_dart: the snapshot-and-diff cache          *)
(* (snapshot_storage.rs), the encrypted physical store with its native     *)
(* (SQLCipher) and sandboxed (IndexedDB) backends (encrypted_db.rs) and    *)
(* the engine's load / commit discipline (api/engine.rs).                  *)
(*                                                                         *)
(* Byte strings are sequences of integers 0..255.  A map (a HashMap, a     *)
(* table, an object store) is a function whose domain is the set of keys   *)
(* that are present.                                                       *)
(***************************************************************************)
EXTENDS Integers, Sequences, FiniteSets, TLC

VARIABLES
    backend,    \* which cfg(target_arch) build runs: "native" or "wasm"
    store,      \* committed rows of mls_storage: key -> [value, group_id]
    tx,         \* the write transaction that is open, if any
    pc,         \* where the engine operation stands
    op,         \* the operation: how it loaded and the group_id it commits with
    initial,    \* SnapshotStorageProvider.initial
    current,    \* SnapshotStorageProvider.current
    nops,       \* storage calls made on the snapshot so far
    updates,    \* StorageUpdates returned by into_updates
    result,     \* what the operation returned
    rd,         \* the load a second operation ran while this one was saving
    view,       \* the entries that load returned
    seeded,     \* history: the entries handed to from_entries
    final,      \* history: `current` as into_updates read it
    before,     \* history: the committed rows when save_updates or delete_group was called
    db,         \* MlsEngine.db: the store handle, and the key it holds
    disk,       \* what persists beside the rows: file key, tables, schema version
    opening,    \* history: the last call of open: its key, result, migration steps
    other,      \* a second engine operation running beside the first
    arg,        \* the input handed to the key codec, or the storage calls of a run
    ret,        \* what the key codec, or the snapshot's last storage call, returned
    host,       \* the host's key/value store behind the callback adapter
    call,       \* the storage call in progress on the callback adapter
    hist,       \* history: the last store or delete of each key
    leaked      \* history: value buffers the snapshot released without overwriting

\* the state of the store's life cycle, of the second operation and of the codec
\* the state of the callback adapter and the histories of a snapshot's calls
paths == <<host, call, hist, leaked>>

ext == <<db, disk, opening, other, arg, ret, paths>>

vars == <<backend, store, tx, pc, op, initial, current, nops, updates, result,
          rd, view, seeded, final, before, ext>>

(***************************************************************************)
(* Bounds                                                                  *)
(***************************************************************************)
\* storage calls one operation makes on its snapshot
MaxOps == 2
\* longest list a list-valued entry grows to
MaxList == 2

(***************************************************************************)
(* Byte strings and serde_json                                             *)
(***************************************************************************)
NULL == <<>>

StartsWith(s, p) == Len(s) >= Len(p) /\ SubSeq(s, 1, Len(p)) = p

RECURSIVE Digits(_)
\* decimal digits of n, as ASCII
Digits(n) == IF n < 10 THEN <<48 + n>> ELSE Digits(n \div 10) \o <<48 + (n % 10)>>

RECURSIVE JoinComma(_)
\* the byte strings of a sequence, separated by ","
JoinComma(parts) ==
    IF parts = <<>> THEN <<>>
    ELSE IF Len(parts) = 1 THEN parts[1]
    ELSE parts[1] \o <<44>> \o JoinComma(Tail(parts))

\* serde_json::to_vec of a Vec<u8>: "[1,2]"
JsonBytes(bs) == <<91>> \o JoinComma([i \in 1..Len(bs) |-> Digits(bs[i])]) \o <<93>>

\* serde_json::to_vec of a Vec<Vec<u8>>: "[[1],[2]]"
JsonList(l) == <<91>> \o JoinComma([i \in 1..Len(l) |-> JsonBytes(l[i])]) \o <<93>>

(***************************************************************************)
(* Labels and composite keys                                               *)
(***************************************************************************)
\* b"KeyPackage"
KEY_PACKAGE_LABEL == <<75, 101, 121, 80, 97, 99, 107, 97, 103, 101>>
\* b"Psk"
PSK_LABEL == <<80, 115, 107>>
\* b"EncryptionKeyPair"
ENCRYPTION_KEY_PAIR_LABEL ==
    <<69, 110, 99, 114, 121, 112, 116, 105, 111, 110, 75, 101, 121, 80, 97, 105, 114>>
\* b"SignatureKeyPair"
SIGNATURE_KEY_PAIR_LABEL ==
    <<83, 105, 103, 110, 97, 116, 117, 114, 101, 75, 101, 121, 80, 97, 105, 114>>
\* b"Tree"
TREE_LABEL == <<84, 114, 101, 101>>
\* b"OwnLeafNodes"
OWN_LEAF_NODES_LABEL == <<79, 119, 110, 76, 101, 97, 102, 78, 111, 100, 101, 115>>

\* b"EpochKeyPairs"
EPOCH_KEY_PAIRS_LABEL ==
    <<69, 112, 111, 99, 104, 75, 101, 121, 80, 97, 105, 114, 115>>

\* b"GroupContext"
GROUP_CONTEXT_LABEL ==
    <<71, 114, 111, 117, 112, 67, 111, 110, 116, 101, 120, 116>>

\* b"InterimTranscriptHash"
INTERIM_TRANSCRIPT_HASH_LABEL ==
    <<73, 110, 116, 101, 114, 105, 109, 84, 114, 97, 110, 115, 99, 114, 105, 112, 116, 72, 97, 115, 104>>

\* b"ConfirmationTag"
CONFIRMATION_TAG_LABEL ==
    <<67, 111, 110, 102, 105, 114, 109, 97, 116, 105, 111, 110, 84, 97, 103>>

\* b"MlsGroupJoinConfig"
JOIN_CONFIG_LABEL ==
    <<77, 108, 115, 71, 114, 111, 117, 112, 74, 111, 105, 110, 67, 111, 110, 102, 105, 103>>

\* b"GroupState"
GROUP_STATE_LABEL ==
    <<71, 114, 111, 117, 112, 83, 116, 97, 116, 101>>

\* b"QueuedProposal"
QUEUED_PROPOSAL_LABEL ==
    <<81, 117, 101, 117, 101, 100, 80, 114, 111, 112, 111, 115, 97, 108>>

\* b"ProposalQueueRefs"
PROPOSAL_QUEUE_REFS_LABEL ==
    <<80, 114, 111, 112, 111, 115, 97, 108, 81, 117, 101, 117, 101, 82, 101, 102, 115>>

\* b"OwnLeafNodeIndex"
OWN_LEAF_NODE_INDEX_LABEL ==
    <<79, 119, 110, 76, 101, 97, 102, 78, 111, 100, 101, 73, 110, 100, 101, 120>>

\* b"EpochSecrets"
EPOCH_SECRETS_LABEL ==
    <<69, 112, 111, 99, 104, 83, 101, 99, 114, 101, 116, 115>>

\* b"ResumptionPsk"
RESUMPTION_PSK_STORE_LABEL ==
    <<82, 101, 115, 117, 109, 112, 116, 105, 111, 110, 80, 115, 107>>

\* b"MessageSecrets"
MESSAGE_SECRETS_LABEL ==
    <<77, 101, 115, 115, 97, 103, 101, 83, 101, 99, 114, 101, 116, 115>>

\* the labels of the eighteen entity kinds
Labels ==
    {KEY_PACKAGE_LABEL, PSK_LABEL, ENCRYPTION_KEY_PAIR_LABEL, SIGNATURE_KEY_PAIR_LABEL,
     EPOCH_KEY_PAIRS_LABEL, TREE_LABEL, GROUP_CONTEXT_LABEL, INTERIM_TRANSCRIPT_HASH_LABEL,
     CONFIRMATION_TAG_LABEL, JOIN_CONFIG_LABEL, OWN_LEAF_NODES_LABEL, GROUP_STATE_LABEL,
     QUEUED_PROPOSAL_LABEL, PROPOSAL_QUEUE_REFS_LABEL, OWN_LEAF_NODE_INDEX_LABEL,
     EPOCH_SECRETS_LABEL, RESUMPTION_PSK_STORE_LABEL, MESSAGE_SECRETS_LABEL}

\* b"__openmls_schema_version__"
WASM_META_KEY ==
    <<95, 95, 111, 112, 101, 110, 109, 108, 115, 95, 115, 99, 104, 101, 109, 97,
      95, 118, 101, 114, 115, 105, 111, 110, 95, 95>>

GLOBAL_LABELS ==
    {KEY_PACKAGE_LABEL, PSK_LABEL, ENCRYPTION_KEY_PAIR_LABEL, SIGNATURE_KEY_PAIR_LABEL}

CURRENT_VERSION == 1

LATEST_SCHEMA_VERSION == 1

\* u16::to_be_bytes
U16Be(v) == <<(v \div 256) % 256, v % 256>>

\* u32::to_be_bytes
U32Be(v) == <<(v \div 16777216) % 256, (v \div 65536) % 256, (v \div 256) % 256, v % 256>>

build_key(label, key_bytes) == label \o key_bytes \o U16Be(CURRENT_VERSION)

\* the logical keys are byte vectors; serde_json writes them as arrays
build_key_serde(label, key) == build_key(label, JsonBytes(key))

\* serde_json::to_vec of a pair of byte vectors: "[[1],[2]]"
JsonPair(a, b) == <<91>> \o JsonBytes(a) \o <<44>> \o JsonBytes(b) \o <<93>>

\* the composite key of an individual queued proposal: (group id, proposal ref)
build_key_pair(label, group_id, ref) == build_key(label, JsonPair(group_id, ref))

\* group id, epoch and leaf index, each serialized by serde_json and
\* concatenated; the epoch and the leaf index are JSON numbers
build_epoch_key(group_id, epoch, leaf_index) ==
    build_key(EPOCH_KEY_PAIRS_LABEL,
              JsonBytes(group_id) \o Digits(epoch) \o Digits(leaf_index))

\* p occurs somewhere in s
Contains(s, p) == \E i \in 0..(Len(s) - Len(p)) : SubSeq(s, i + 1, i + Len(p)) = p

\* is_global_key testing for the label anywhere in the key
is_global_key_contains(key) == \E label \in GLOBAL_LABELS : Contains(key, label)

is_global_key(key) == \E label \in GLOBAL_LABELS : StartsWith(key, label)

(***************************************************************************)
(* The entities of the model                                               *)
(***************************************************************************)
GroupA == <<1>>
GroupB == <<2>>
Groups == {GroupA, GroupB}

\* a key package reference
KpRef == <<9>>

KpKey == build_key_serde(KEY_PACKAGE_LABEL, KpRef)
TreeKey(g) == build_key_serde(TREE_LABEL, g)
LeafNodesKey(g) == build_key_serde(OWN_LEAF_NODES_LABEL, g)

\* entries written with write_val / delete_val
PlainKeys == {KpKey, TreeKey(GroupB)}
\* entries written with append_to_list / remove_from_list
ListKeys == {LeafNodesKey(GroupA)}
Keys == PlainKeys \cup ListKeys

\* serialized values: the JSON texts "1" and "2"
Values == {<<49>>, <<50>>}
\* serialized list items
Items == {<<7>>}

\* a proposal reference
ProposalRef == <<5>>
\* the proposal references of the model
ProposalRefs == {ProposalRef, <<6>>}

\* every item a list entry can hold: leaf nodes and serialized proposal references
ListItems == Items \cup {<<8>>} \cup {JsonBytes(r) : r \in ProposalRefs}

\* the group whose identifier a group-scoped key embeds
KeyGroup(k) == CHOOSE g \in Groups : k \in {TreeKey(g), LeafNodesKey(g)}

(***************************************************************************)
(* Maps                                                                    *)
(***************************************************************************)
EmptyMap == <<>>

MapPut(m, k, v) == [x \in (DOMAIN m) \cup {k} |-> IF x = k THEN v ELSE m[x]]

MapDel(m, k) == [x \in (DOMAIN m) \ {k} |-> m[x]]

\* every ordering of a finite set: the orders a HashMap may be iterated in
Perms(S) ==
    {s \in [1..Cardinality(S) -> S] : \A i, j \in 1..Cardinality(S) : s[i] = s[j] => i = j}

(***************************************************************************)
(* Per-value encryption of the sandboxed backend (AES-256-GCM by            *)
(* crypto.subtle), symbolically: a blob opens only under the key that       *)
(* sealed it.  The random nonce is left out.                                *)
(***************************************************************************)
\* the CryptoKey imported by open
CryptoKey == "K1"

wasm_encrypt(key, plaintext) == [sealed_with |-> key, plaintext |-> plaintext]

\* what a blob cut below the 12 bytes of the nonce is sealed with: nothing
TooShort == "short"
\* what a blob whose bytes were altered is sealed with: no key opens it
Corrupted == "corrupt"

wasm_decrypt(key, data) ==
    IF data.sealed_with = TooShort
    THEN [ok |-> FALSE, plaintext |-> <<>>]
    ELSE IF data.sealed_with = key
    THEN [ok |-> TRUE, plaintext |-> data.plaintext]
    ELSE [ok |-> FALSE, plaintext |-> <<>>]

(***************************************************************************)
(* Encrypted physical store                                                *)
(***************************************************************************)
Row(value, group_id) == [value |-> value, group_id |-> group_id]

\* the store as open leaves it: the tables exist and the version is recorded
OpenedStore(b) ==
    IF b = "native"
    THEN EmptyMap
    ELSE MapPut(EmptyMap, WASM_META_KEY,
                Row(wasm_encrypt(CryptoKey, U32Be(LATEST_SCHEMA_VERSION)), NULL))

\* SELECT key, value FROM mls_storage WHERE group_id IS NULL
native_load_global(s) ==
    [ok |-> TRUE,
     entries |-> [k \in {x \in DOMAIN s : s[x].group_id = NULL} |-> s[k].value]]

\* load_for_group without `OR group_id IS NULL`: the global rows are left out
native_load_for_group_group_only(s, group_id) ==
    [ok |-> TRUE,
     entries |-> [k \in {x \in DOMAIN s : s[x].group_id = group_id} |-> s[k].value]]

\* load_for_group without its WHERE clause
native_load_for_group_unfiltered(s, group_id) ==
    [ok |-> TRUE, entries |-> [k \in DOMAIN s |-> s[k].value]]

\* SELECT key, value FROM mls_storage WHERE group_id = ?1 OR group_id IS NULL
native_load_for_group(s, group_id) ==
    [ok |-> TRUE,
     entries |-> [k \in {x \in DOMAIN s : s[x].group_id = group_id \/ s[x].group_id = NULL}
                    |-> s[k].value]]

\* every (key, encrypted value) of the object store but the reserved key
idb_get_all(s) == [k \in (DOMAIN s) \ {WASM_META_KEY} |-> s[k].value]

\* idb_get_all_keys without the filter on the reserved key
idb_get_all_keys_unfiltered(s) == DOMAIN s

\* every key of the object store but the reserved key
idb_get_all_keys(s) == (DOMAIN s) \ {WASM_META_KEY}

\* the decryption loop with a failing row left out of the result
WasmDecryptRows_skip_failed(all, keys) ==
    [ok |-> TRUE,
     entries |-> [k \in {x \in keys : wasm_decrypt(CryptoKey, all[x]).ok}
                    |-> wasm_decrypt(CryptoKey, all[k]).plaintext]]

\* decrypt the chosen rows; one failing decryption fails the load
WasmDecryptRows(all, keys) ==
    IF \A k \in keys : wasm_decrypt(CryptoKey, all[k]).ok
    THEN [ok |-> TRUE, entries |-> [k \in keys |-> wasm_decrypt(CryptoKey, all[k]).plaintext]]
    ELSE [ok |-> FALSE, entries |-> EmptyMap]

wasm_load_global(s) ==
    LET all == idb_get_all(s)
    IN  WasmDecryptRows(all, {k \in DOMAIN all : is_global_key(k)})

wasm_load_for_group(s, group_id) ==
    LET all == idb_get_all(s)
    IN  WasmDecryptRows(all, DOMAIN all)

load_global(b, s) == IF b = "native" THEN native_load_global(s) ELSE wasm_load_global(s)

load_for_group(b, s, group_id) ==
    IF b = "native" THEN native_load_for_group(s, group_id)
    ELSE wasm_load_for_group(s, group_id)

\* the upsert loop without the is_global_key test: the hint is stored for every key
native_statements_hint_always(u, group_id) ==
    [i \in 1..(Len(u.upserts) + Len(u.deletes)) |->
        IF i <= Len(u.upserts)
        THEN [kind |-> "put", key |-> u.upserts[i][1], row |-> Row(u.upserts[i][2], group_id)]
        ELSE [kind |-> "del", key |-> u.deletes[i - Len(u.upserts)], row |-> Row(NULL, NULL)]]

\* the statements one save_updates call runs in its transaction: the upsert
\* loop, then the delete loop
native_statements(u, group_id) ==
    [i \in 1..(Len(u.upserts) + Len(u.deletes)) |->
        IF i <= Len(u.upserts)
        THEN [kind |-> "put", key |-> u.upserts[i][1],
              row |-> Row(u.upserts[i][2],
                          IF is_global_key(u.upserts[i][1]) THEN NULL ELSE group_id)]
        ELSE [kind |-> "del", key |-> u.deletes[i - Len(u.upserts)], row |-> Row(NULL, NULL)]]

\* on the sandboxed backend the values are encrypted first and no group is stored
wasm_statements(u, group_id) ==
    [i \in 1..(Len(u.upserts) + Len(u.deletes)) |->
        IF i <= Len(u.upserts)
        THEN [kind |-> "put", key |-> u.upserts[i][1],
              row |-> Row(wasm_encrypt(CryptoKey, u.upserts[i][2]), NULL)]
        ELSE [kind |-> "del", key |-> u.deletes[i - Len(u.upserts)], row |-> Row(NULL, NULL)]]

statements(b, u, group_id) ==
    IF b = "native" THEN native_statements(u, group_id) ELSE wasm_statements(u, group_id)

\* INSERT OR REPLACE / DELETE (native), put / delete (sandboxed)
ApplyStmt(image, st) ==
    IF st.kind = "put" THEN MapPut(image, st.key, st.row) ELSE MapDel(image, st.key)

\* What the store holds once a transaction ends without commit having
\* succeeded.  rusqlite's Transaction rolls back when dropped.  The IndexedDB
\* transaction is dropped without abort(): the requests already placed either
\* abort with it (a failed request) or are committed by the browser when the
\* transaction goes idle (an exception thrown by put, delete or commit).
TxDropped(b, committed, image) ==
    IF b = "native" THEN {committed} ELSE {committed, image}

NoTx == [open |-> FALSE, image |-> EmptyMap, stmts |-> <<>>, idx |-> 0]

\* the key/value content of the store: data rows, in plaintext
StoreContent(b, s) ==
    IF b = "native" THEN [k \in DOMAIN s |-> s[k].value]
    ELSE [k \in (DOMAIN s) \ {WASM_META_KEY} |-> s[k].value.plaintext]

\* DELETE FROM mls_storage WHERE group_id = ?1
native_delete_group(s, group_id) ==
    [k \in {x \in DOMAIN s : s[x].group_id # group_id} |-> s[k]]

\* the keys delete_group removes on the sandboxed backend: every key that
\* carries no global label, whatever group_id is
wasm_delete_group_keys(s, group_id) == {k \in idb_get_all_keys(s) : ~is_global_key(k)}

RECURSIVE DeleteAll(_, _)
\* the object store after the delete requests for `keys`, in order
DeleteAll(image, keys) ==
    IF keys = <<>> THEN image ELSE DeleteAll(MapDel(image, Head(keys)), Tail(keys))

(***************************************************************************)
(* Snapshot cache                                                          *)
(***************************************************************************)
from_entries(entries) == [initial |-> entries, current |-> entries]

\* into_updates without its second pass: removed keys are not reported
into_updates_no_deletes(init, cur) ==
    LET changed == {k \in DOMAIN cur : ~(k \in DOMAIN init /\ init[k] = cur[k])}
    IN  {[upserts |-> [i \in 1..Len(ks) |-> <<ks[i], cur[ks[i]]>>], deletes |-> <<>>] :
            ks \in Perms(changed)}

\* into_updates matching only `Some(old) if old != value`: new keys are missed
into_updates_changed_only(init, cur) ==
    LET changed == {k \in DOMAIN cur : k \in DOMAIN init /\ init[k] # cur[k]}
        removed == {k \in DOMAIN init : k \notin DOMAIN cur}
    IN  {[upserts |-> [i \in 1..Len(ks) |-> <<ks[i], cur[ks[i]]>>], deletes |-> ds] :
            ks \in Perms(changed), ds \in Perms(removed)}

\* into_updates without the `old_value == value` arm: every entry is upserted
into_updates_all_entries(init, cur) ==
    LET removed == {k \in DOMAIN init : k \notin DOMAIN cur}
    IN  {[upserts |-> [i \in 1..Len(ks) |-> <<ks[i], cur[ks[i]]>>], deletes |-> ds] :
            ks \in Perms(DOMAIN cur), ds \in Perms(removed)}

\* The changesets into_updates may return: one pass over `current`, one over
\* the keys of `initial`, each in the HashMap's iteration order.
into_updates(init, cur) ==
    LET changed == {k \in DOMAIN cur : ~(k \in DOMAIN init /\ init[k] = cur[k])}
        removed == {k \in DOMAIN init : k \notin DOMAIN cur}
    IN  {[upserts |-> [i \in 1..Len(ks) |-> <<ks[i], cur[ks[i]]>>], deletes |-> ds] :
            ks \in Perms(changed), ds \in Perms(removed)}

NoUpdates == [upserts |-> <<>>, deletes |-> <<>>]

kv_write(cur, key, value) == MapPut(cur, key, value)

kv_read(cur, key) ==
    IF key \in DOMAIN cur THEN [some |-> TRUE, bytes |-> cur[key]]
    ELSE [some |-> FALSE, bytes |-> <<>>]

\* kv_delete that leaves the entry in place
kv_delete_noop(cur, key) == cur

\* kv_delete that stores an empty value instead of removing the entry
kv_delete_tombstone(cur, key) == MapPut(cur, key, <<>>)

kv_delete(cur, key) == MapDel(cur, key)

\* HashMap::insert and HashMap::remove hand back the value the key held; the
\* helpers let it go out of scope as it is
Replaced(cur, key) == IF key \in DOMAIN cur THEN {cur[key]} ELSE {}

write_val(cur, label, key, val_bytes) == kv_write(cur, build_key_serde(label, key), val_bytes)

delete_val(cur, label, key) == kv_delete(cur, build_key_serde(label, key))

\* the lists the model's list entries can hold
Lists == UNION {[1..n -> ListItems] : n \in 0..MaxList}

\* serde_json::from_slice::<Vec<Vec<u8>>>: the list whose JSON text `bytes` is
from_slice_list(bytes) ==
    IF \E l \in Lists : JsonList(l) = bytes
    THEN [ok |-> TRUE, list |-> CHOOSE l \in Lists : JsonList(l) = bytes]
    ELSE [ok |-> FALSE, list |-> <<>>]

\* Vec::remove
RemoveAt(list, pos) == SubSeq(list, 1, pos - 1) \o SubSeq(list, pos + 1, Len(list))

append_to_list(cur, label, key, item) ==
    LET storage_key == build_key_serde(label, key)
        got == kv_read(cur, storage_key)
        parsed == IF got.some THEN from_slice_list(got.bytes) ELSE [ok |-> TRUE, list |-> <<>>]
    IN  IF parsed.ok
        THEN [ok |-> TRUE,
              current |-> kv_write(cur, storage_key, JsonList(Append(parsed.list, item)))]
        ELSE [ok |-> FALSE, current |-> cur]

\* Ok(None) for an absent key, Ok(Some(value)) otherwise; values stay in
\* their serialized form
read_val(cur, label, key) ==
    LET got == kv_read(cur, build_key_serde(label, key))
    IN  [ok |-> TRUE, some |-> got.some, bytes |-> got.bytes, list |-> <<>>]

read_list(cur, label, key) ==
    LET got == kv_read(cur, build_key_serde(label, key))
        parsed == IF got.some THEN from_slice_list(got.bytes) ELSE [ok |-> TRUE, list |-> <<>>]
    IN  [ok |-> parsed.ok, some |-> FALSE, bytes |-> <<>>, list |-> parsed.list]

\* remove_from_list dropping every occurrence of the item
remove_from_list_every(cur, label, key, item) ==
    LET storage_key == build_key_serde(label, key)
        got == kv_read(cur, storage_key)
        parsed == from_slice_list(got.bytes)
        list == parsed.list
    IN  IF ~got.some THEN [ok |-> TRUE, current |-> cur]
        ELSE IF ~parsed.ok THEN [ok |-> FALSE, current |-> cur]
        ELSE [ok |-> TRUE,
              current |-> kv_write(cur, storage_key,
                                   JsonList(SelectSeq(list, LAMBDA x : x # item)))]

remove_from_list(cur, label, key, item) ==
    LET storage_key == build_key_serde(label, key)
        got == kv_read(cur, storage_key)
        parsed == from_slice_list(got.bytes)
        list == parsed.list
        hits == {i \in 1..Len(list) : list[i] = item}
        pos == CHOOSE i \in hits : \A j \in hits : i <= j
    IN  IF ~got.some THEN [ok |-> TRUE, current |-> cur]
        ELSE IF ~parsed.ok THEN [ok |-> FALSE, current |-> cur]
        ELSE [ok |-> TRUE,
              current |-> kv_write(cur, storage_key,
                                   JsonList(IF hits = {} THEN list ELSE RemoveAt(list, pos)))]

\* queue_proposal: the proposal under (group id, proposal ref), then the
\* serialized reference appended to the group's list of references
queue_proposal(cur, group_id, proposal_ref, proposal) ==
    LET written == kv_write(cur, build_key_pair(QUEUED_PROPOSAL_LABEL, group_id, proposal_ref),
                            proposal)
    IN  append_to_list(written, PROPOSAL_QUEUE_REFS_LABEL, group_id, JsonBytes(proposal_ref))

\* remove_proposal: the proposal under (group id, proposal ref) is deleted,
\* then the serialized reference is taken out of the group's list
remove_proposal(cur, group_id, proposal_ref) ==
    LET deleted == kv_delete(cur, build_key_pair(QUEUED_PROPOSAL_LABEL, group_id, proposal_ref))
    IN  remove_from_list(deleted, PROPOSAL_QUEUE_REFS_LABEL, group_id, JsonBytes(proposal_ref))

\* serde_json::from_slice::<ProposalRef> of a list item
RefOf(item) == CHOOSE r \in ProposalRefs : JsonBytes(r) = item

\* queued_proposal_refs: read_list under the group's list key
queued_proposal_refs(cur, group_id) == read_list(cur, PROPOSAL_QUEUE_REFS_LABEL, group_id)

\* queued_proposals: for each reference of the list, in order, the pair of
\* the reference and its stored proposal; a reference without one is skipped
queued_proposals(cur, group_id) ==
    LET refs == queued_proposal_refs(cur, group_id)
        key(item) == build_key_pair(QUEUED_PROPOSAL_LABEL, group_id, RefOf(item))
        found == SelectSeq(refs.list, LAMBDA item : kv_read(cur, key(item)).some)
    IN  [ok |-> refs.ok,
         list |-> [i \in 1..Len(found) |-> <<RefOf(found[i]), kv_read(cur, key(found[i])).bytes>>]]

RECURSIVE DeleteProposals(_, _, _)
\* the loop of clear_proposal_queue: delete_val for each reference in turn
DeleteProposals(cur, group_id, refs) ==
    IF refs = <<>> THEN cur
    ELSE DeleteProposals(
             kv_delete(cur, build_key_pair(QUEUED_PROPOSAL_LABEL, group_id, RefOf(Head(refs)))),
             group_id, Tail(refs))

\* clear_proposal_queue that deletes the list of references alone
clear_proposal_queue_list_only(cur, group_id) ==
    [ok |-> TRUE, current |-> delete_val(cur, PROPOSAL_QUEUE_REFS_LABEL, group_id)]

clear_proposal_queue(cur, group_id) ==
    LET refs == read_list(cur, PROPOSAL_QUEUE_REFS_LABEL, group_id)
    IN  IF ~refs.ok THEN [ok |-> FALSE, current |-> cur]
        ELSE [ok |-> TRUE,
              current |-> delete_val(DeleteProposals(cur, group_id, refs.list),
                                     PROPOSAL_QUEUE_REFS_LABEL, group_id)]

\* the logical keys the model's storage calls use, by label
PlainEntities ==
    {[label |-> KEY_PACKAGE_LABEL, key |-> KpRef], [label |-> TREE_LABEL, key |-> GroupB]}
ListEntities == {[label |-> OWN_LEAF_NODES_LABEL, key |-> GroupA]}

(***************************************************************************)
(* Opening and closing the store                                           *)
(***************************************************************************)
\* the key length open accepts
KEY_LEN == 32

\* The keys a caller hands to open: an identity and a length in bytes.  The
\* key that first seals anything in a store is named CryptoKey.
OpenKeys ==
    {[id |-> CryptoKey, len |-> KEY_LEN], [id |-> "K2", len |-> KEY_LEN],
     [id |-> CryptoKey, len |-> KEY_LEN - 1], [id |-> "K2", len |-> KEY_LEN + 1]}

\* What persists beside the rows of mls_storage.  Native: the key the file is
\* encrypted with ("none": a new, empty file), the db_meta table and its
\* schema_version row (<<>>: no row), the mls_storage table.  Sandboxed: the
\* mls_storage object store; the version is a row of it.
FreshDisk == [sealed_with |-> "none", db_meta |-> FALSE, version |-> <<>>, mls_storage |-> FALSE]

\* the disk as a successful open of a new store leaves it
OpenedDisk(b) ==
    IF b = "native"
    THEN [sealed_with |-> CryptoKey, db_meta |-> TRUE,
          version |-> <<LATEST_SCHEMA_VERSION>>, mls_storage |-> TRUE]
    ELSE [FreshDisk EXCEPT !.mls_storage = TRUE]

\* u32::from_be_bytes
FromU32Be(b) == b[1] * 16777216 + b[2] * 65536 + b[3] * 256 + b[4]

\* the keys under which something in the store is sealed
SealedWith(b, d, s) ==
    IF b = "native" THEN {d.sealed_with} \ {"none"}
    ELSE {s[k].value.sealed_with : k \in DOMAIN s}

\* the schema version the store has persisted (0: none recorded)
PersistedVersion(b, d, s) ==
    IF b = "native" THEN (IF d.version = <<>> THEN 0 ELSE d.version[1])
    ELSE IF WASM_META_KEY \in DOMAIN s
         THEN FromU32Be(s[WASM_META_KEY].value.plaintext) ELSE 0

\* one way a call of open can end
OpenResult(res, d, s, migrated) == [res |-> res, disk |-> d, store |-> s, steps |-> migrated]

\* SELECT COALESCE((SELECT CAST(value AS INTEGER) FROM db_meta ...), 0)
native_read_schema_version(d) == IF d.version = <<>> THEN 0 ELSE d.version[1]

\* the migration without its INSERT into db_meta: the version is not recorded
migrate_native_v0_to_v1_no_version(d, s) ==
    {OpenResult("ok", [d EXCEPT !.mls_storage = TRUE], s, <<1>>),
     OpenResult("io", d, s, <<>>)}

\* migrate_native_v0_to_v1: one transaction that creates mls_storage and
\* writes version 1; rolled back when a statement or the commit fails
migrate_native_v0_to_v1(d, s) ==
    {OpenResult("ok", [d EXCEPT !.mls_storage = TRUE, !.version = <<1>>], s, <<1>>),
     OpenResult("io", d, s, <<>>)}

\* run_migrations without the downgrade detection
native_run_migrations_no_downgrade_check(key, d, s) ==
    LET d1 == [d EXCEPT !.db_meta = TRUE, !.sealed_with = key.id]
        version == native_read_schema_version(d1)
    IN  {OpenResult("io", d, s, <<>>), OpenResult("io", d1, s, <<>>)}
        \cup
        (IF version >= LATEST_SCHEMA_VERSION THEN {OpenResult("ok", d1, s, <<>>)}
         ELSE migrate_native_v0_to_v1(d1, s))

\* run_migrations on a connection whose key was accepted
native_run_migrations(key, d, s) ==
    LET d1 == [d EXCEPT !.db_meta = TRUE, !.sealed_with = key.id]
        version == native_read_schema_version(d1)
    IN  {OpenResult("io", d, s, <<>>), OpenResult("io", d1, s, <<>>)}
        \cup
        (IF version > LATEST_SCHEMA_VERSION THEN {OpenResult("future", d1, s, <<>>)}
         ELSE IF version >= LATEST_SCHEMA_VERSION THEN {OpenResult("ok", d1, s, <<>>)}
         ELSE IF version < 1 THEN migrate_native_v0_to_v1(d1, s)
         ELSE {OpenResult("ok", d1, s, <<>>)})

\* open without the trial read of sqlite_master
native_open_no_key_check(key, d, s) ==
    IF key.len # KEY_LEN THEN {OpenResult("config", d, s, <<>>)}
    ELSE {OpenResult("io", d, s, <<>>)} \cup native_run_migrations(key, d, s)

\* the ways EncryptedDb::open can end on the native backend
native_open(key, d, s) ==
    IF key.len # KEY_LEN THEN {OpenResult("config", d, s, <<>>)}
    ELSE {OpenResult("io", d, s, <<>>)}
         \cup
         (IF d.sealed_with \notin {"none", key.id} THEN {OpenResult("wrong_key", d, s, <<>>)}
          ELSE native_run_migrations(key, d, s))

\* idb_read_schema_version: 0 when the reserved key is absent
idb_read_schema_version(key, s) ==
    IF WASM_META_KEY \notin DOMAIN s THEN [res |-> "ok", version |-> 0]
    ELSE LET plain == wasm_decrypt(key.id, s[WASM_META_KEY].value)
         IN  IF ~plain.ok THEN [res |-> "decrypt", version |-> 0]
             ELSE IF Len(plain.plaintext) # 4 THEN [res |-> "corrupt", version |-> 0]
             ELSE [res |-> "ok", version |-> FromU32Be(plain.plaintext)]

\* idb_write_schema_version: one put in its own transaction
idb_write_schema_version(key, d, s, version) ==
    LET written == MapPut(s, WASM_META_KEY, Row(wasm_encrypt(key.id, U32Be(version)), NULL))
    IN  {OpenResult("ok", d, written, <<version>>)}
        \cup {OpenResult("io", d, x, <<>>) : x \in TxDropped("wasm", s, written)}

\* run_migrations that writes the version at every open
wasm_run_migrations_always_writes(key, d, s) ==
    LET d1 == [d EXCEPT !.mls_storage = TRUE]
        read == idb_read_schema_version(key, s)
    IN  {OpenResult("io", d, s, <<>>), OpenResult("io", d1, s, <<>>)}
        \cup
        (IF read.res # "ok" THEN {OpenResult(read.res, d1, s, <<>>)}
         ELSE IF read.version > LATEST_SCHEMA_VERSION THEN {OpenResult("future", d1, s, <<>>)}
         ELSE idb_write_schema_version(key, d1, s, 1))

\* run_migrations of the sandboxed backend: the object store, then the data
wasm_run_migrations(key, d, s) ==
    LET d1 == [d EXCEPT !.mls_storage = TRUE]
        read == idb_read_schema_version(key, s)
    IN  {OpenResult("io", d, s, <<>>), OpenResult("io", d1, s, <<>>)}
        \cup
        (IF read.res # "ok" THEN {OpenResult(read.res, d1, s, <<>>)}
         ELSE IF read.version > LATEST_SCHEMA_VERSION THEN {OpenResult("future", d1, s, <<>>)}
         ELSE IF read.version >= LATEST_SCHEMA_VERSION THEN {OpenResult("ok", d1, s, <<>>)}
         ELSE IF read.version < 1 THEN idb_write_schema_version(key, d1, s, 1)
         ELSE {OpenResult("ok", d1, s, <<>>)})

\* open that tests the key length only after run_migrations
wasm_open_late_length_check(key, d, s) ==
    IF key.len # KEY_LEN
    THEN {OpenResult("config", r.disk, r.store, <<>>) : r \in wasm_run_migrations(key, d, s)}
    ELSE {OpenResult("io", d, s, <<>>)} \cup wasm_run_migrations(key, d, s)

\* the ways EncryptedDb::open can end on the sandboxed backend
wasm_open(key, d, s) ==
    LET test_pt == wasm_decrypt(key.id, wasm_encrypt(key.id, <<116>>))
    IN  IF key.len # KEY_LEN THEN {OpenResult("config", d, s, <<>>)}
        ELSE {OpenResult("io", d, s, <<>>)}
             \cup
             (IF ~test_pt.ok \/ test_pt.plaintext # <<116>>
              THEN {OpenResult("decrypt", d, s, <<>>)}
              ELSE wasm_run_migrations(key, d, s))

open(b, key, d, s) == IF b = "native" THEN native_open(key, d, s) ELSE wasm_open(key, d, s)

\* MlsEngine::schema_version
schema_version == LATEST_SCHEMA_VERSION

NoDb == [state |-> "none", key |-> "none", closes |-> 0]

\* the handle a successful MlsEngine::create holds
OpenDb(key_id) == [state |-> "open", key |-> key_id, closes |-> 0]

\* db() with the closed check left out
MlsEngine_db_unchecked(h) == [ok |-> h.state # "none"]

\* MlsEngine::db: the handle, or "MlsEngine is closed"
MlsEngine_db(h) == [ok |-> h.state = "open"]

\* MlsEngine::is_closed
is_closed == db.state # "open"

(***************************************************************************)
(* The state machine                                                       *)
(***************************************************************************)
NoOp == [kind |-> "none", gid |-> NULL, hint |-> NULL]

NoRead == [kind |-> "none", gid |-> NULL]

NoBefore == [set |-> FALSE, rows |-> EmptyMap]

NoOpening == [n |-> 0, key |-> [id |-> "none", len |-> 0], res |-> "none", steps |-> <<>>]

NoOther == [pc |-> "none", gid |-> NULL, initial |-> EmptyMap, current |-> EmptyMap,
            call |-> [kind |-> "none"], updates |-> NoUpdates]

NoArg == [kind |-> "none"]

NoRet == [kind |-> "none"]

NoCall == [status |-> "none"]

Init ==
    /\ backend \in {"native", "wasm"}
    /\ store = OpenedStore(backend)
    /\ tx = NoTx
    /\ pc = "idle"
    /\ op = NoOp
    /\ initial = EmptyMap
    /\ current = EmptyMap
    /\ nops = 0
    /\ updates = NoUpdates
    /\ result = "none"
    /\ seeded = EmptyMap
    /\ final = EmptyMap
    /\ rd = NoRead
    /\ view = EmptyMap
    /\ before = NoBefore
    /\ db = OpenDb(CryptoKey)
    /\ disk = OpenedDisk(backend)
    /\ opening = NoOpening
    /\ other = NoOther
    /\ arg = NoArg
    /\ ret = NoRet
    /\ host = EmptyMap
    /\ call = NoCall
    /\ hist = EmptyMap
    /\ leaked = {}

\* what a load leaves behind: a fresh snapshot, or the error it returned
Loaded(r, kind, gid, hint) ==
    /\ op' = [kind |-> kind, gid |-> gid, hint |-> hint]
    /\ IF r.ok
       THEN /\ initial' = from_entries(r.entries).initial
            /\ current' = from_entries(r.entries).current
            /\ seeded' = r.entries
            /\ pc' = "snap"
            /\ result' = "none"
       ELSE /\ initial' = EmptyMap
            /\ current' = EmptyMap
            /\ seeded' = EmptyMap
            /\ pc' = "done"
            /\ result' = "err"
    /\ nops' = 0
    /\ UNCHANGED <<ext, rd, view, before, backend, store, tx, updates, final>>

\* MlsEngine::load_global, for an operation that commits with `hint`
\* (None for key-package operations, Some(gid) when a group is created or joined)
OpLoadGlobal(hint) ==
    /\ pc = "idle"
    /\ ~tx.open
    /\ MlsEngine_db(db).ok
    /\ Loaded(load_global(backend, store), "global", NULL, hint)

\* MlsEngine::load_for_group, for an operation on group_id
OpLoadForGroup(group_id) ==
    /\ pc = "idle"
    /\ ~tx.open
    /\ MlsEngine_db(db).ok
    /\ Loaded(load_for_group(backend, store, group_id), "group", group_id, group_id)

\* a storage call that writes to both maps
SnapshotCallBothMaps(cur) ==
    /\ current' = cur
    /\ initial' = cur
    /\ nops' = nops + 1
    /\ UNCHANGED <<ext, rd, view, before, backend, store, tx, pc, op, updates, result, seeded, final>>

\* A storage call on the snapshot that left `cur` behind.  The StorageProvider
\* methods take &self and reach kv_write / kv_delete through a cast to &mut
\* Self; the write lands in `current`, the one map those helpers name.
SnapshotCall(cur) ==
    /\ current' = cur
    /\ nops' = nops + 1
    /\ UNCHANGED <<ext, rd, view, before, backend, store, tx, pc, op, initial, updates, result, seeded, final>>

StoreVal(e, v) ==
    /\ pc = "snap"
    /\ nops < MaxOps
    /\ SnapshotCall(write_val(current, e.label, e.key, v))

DeleteVal(e) ==
    /\ pc = "snap"
    /\ nops < MaxOps
    /\ SnapshotCall(delete_val(current, e.label, e.key))

AppendToList(e, item) ==
    /\ pc = "snap"
    /\ nops < MaxOps
    /\ LET got == kv_read(current, build_key_serde(e.label, e.key))
       IN  got.some => Len(from_slice_list(got.bytes).list) < MaxList
    /\ SnapshotCall(append_to_list(current, e.label, e.key, item).current)

RemoveFromList(e, item) ==
    /\ pc = "snap"
    /\ nops < MaxOps
    /\ SnapshotCall(remove_from_list(current, e.label, e.key, item).current)

\* a drop that flushes the working copy to the store
AbandonFlushes ==
    /\ pc = "snap"
    /\ store' = [k \in DOMAIN current |->
                    Row(IF backend = "native" THEN current[k]
                        ELSE wasm_encrypt(CryptoKey, current[k]), NULL)]
    /\ initial' = EmptyMap
    /\ current' = EmptyMap
    /\ pc' = "done"
    /\ result' = "abandoned"
    /\ UNCHANGED <<ext, rd, view, before, backend, tx, op, nops, updates, seeded, final>>

\* the operation fails or is abandoned: the snapshot is dropped (impl Drop)
Abandon ==
    /\ pc = "snap"
    /\ initial' = EmptyMap
    /\ current' = EmptyMap
    /\ pc' = "done"
    /\ result' = "abandoned"
    /\ UNCHANGED <<ext, rd, view, before, backend, store, tx, op, nops, updates, seeded, final>>

\* MlsEngine::commit, first half: provider.into_storage().into_updates()
IntoUpdates ==
    /\ pc = "snap"
    /\ updates' \in into_updates(initial, current)
    /\ final' = current
    /\ initial' = EmptyMap
    /\ current' = EmptyMap
    /\ pc' = "diffed"
    /\ UNCHANGED <<ext, rd, view, before, backend, store, tx, op, nops, result, seeded>>

\* a commit that calls save_updates with nothing to persist
CommitEmpty_saves ==
    /\ pc = "diffed"
    /\ updates.upserts = <<>> /\ updates.deletes = <<>>
    /\ ~tx.open
    /\ tx' = [open |-> TRUE, image |-> store, stmts |-> <<>>, idx |-> 1]
    /\ pc' = "saving"
    /\ before' = [set |-> TRUE, rows |-> store]
    /\ UNCHANGED <<ext, rd, view, backend, store, op, initial, current, nops, updates, result, seeded, final>>

\* MlsEngine::commit: nothing to persist, save_updates is not called
CommitEmpty ==
    /\ pc = "diffed"
    /\ updates.upserts = <<>> /\ updates.deletes = <<>>
    /\ pc' = "done"
    /\ result' = "ok"
    /\ UNCHANGED <<ext, rd, view, before, backend, store, tx, op, initial, current, nops, updates, seeded, final>>

\* save_updates: the transaction begins
SaveBegin ==
    /\ pc = "diffed"
    /\ MlsEngine_db(db).ok
    /\ ~(updates.upserts = <<>> /\ updates.deletes = <<>>)
    /\ ~tx.open
    /\ tx' = [open |-> TRUE, image |-> store,
              stmts |-> statements(backend, updates, op.hint), idx |-> 1]
    /\ pc' = "saving"
    /\ before' = [set |-> TRUE, rows |-> store]
    /\ UNCHANGED <<ext, rd, view, backend, store, op, initial, current, nops, updates, result, seeded, final>>

\* save_updates fails before its transaction exists (begin, encryption, idb_open)
SaveBeginFail ==
    /\ pc = "diffed"
    /\ MlsEngine_db(db).ok
    /\ ~(updates.upserts = <<>> /\ updates.deletes = <<>>)
    /\ pc' = "done"
    /\ result' = "err"
    /\ UNCHANGED <<ext, rd, view, before, backend, store, tx, op, initial, current, nops, updates, seeded, final>>

\* save_updates: the next upsert or delete succeeds
SaveStmt ==
    /\ pc = "saving"
    /\ tx.idx <= Len(tx.stmts)
    /\ tx' = [tx EXCEPT !.image = ApplyStmt(tx.image, tx.stmts[tx.idx]), !.idx = tx.idx + 1]
    /\ UNCHANGED <<ext, rd, view, before, backend, store, pc, op, initial, current, nops, updates, result, seeded, final>>

\* save_updates: the next upsert or delete fails; `?` returns and drops the transaction
SaveStmtFail ==
    /\ pc = "saving"
    /\ tx.idx <= Len(tx.stmts)
    /\ store' \in TxDropped(backend, store, tx.image)
    /\ tx' = NoTx
    /\ pc' = "done"
    /\ result' = "err"
    /\ UNCHANGED <<ext, rd, view, before, backend, op, initial, current, nops, updates, seeded, final>>

\* save_updates: commit succeeds
SaveCommit ==
    /\ pc = "saving"
    /\ tx.idx > Len(tx.stmts)
    /\ store' = tx.image
    /\ tx' = NoTx
    /\ pc' = "done"
    /\ result' = "ok"
    /\ UNCHANGED <<ext, rd, view, before, backend, op, initial, current, nops, updates, seeded, final>>

\* save_updates: commit fails
SaveCommitFail ==
    /\ pc = "saving"
    /\ tx.idx > Len(tx.stmts)
    /\ store' \in TxDropped(backend, store, tx.image)
    /\ tx' = NoTx
    /\ pc' = "done"
    /\ result' = "err"
    /\ UNCHANGED <<ext, rd, view, before, backend, op, initial, current, nops, updates, seeded, final>>

\* a call of EncryptedDb::delete_group returned `res`, leaving `s` behind
DeleteGroupReturns(group_id, s, res) ==
    /\ store' = s
    /\ op' = [kind |-> "delete_group", gid |-> group_id, hint |-> NULL]
    /\ pc' = "done"
    /\ result' = res
    /\ before' = [set |-> TRUE, rows |-> store]
    /\ UNCHANGED <<ext, rd, view, backend, tx, initial, current, nops, updates, seeded, final>>

\* EncryptedDb::delete_group succeeds
DeleteGroup(group_id) ==
    /\ pc = "idle"
    /\ ~tx.open
    /\ MlsEngine_db(db).ok
    /\ IF backend = "native"
       THEN DeleteGroupReturns(group_id, native_delete_group(store, group_id), "ok")
       ELSE \E order \in Perms(wasm_delete_group_keys(store, group_id)) :
                DeleteGroupReturns(group_id, DeleteAll(store, order), "ok")

\* EncryptedDb::delete_group fails: the DELETE statement (native); listing the
\* keys, the i-th delete request or commit (sandboxed)
DeleteGroupFail(group_id) ==
    /\ pc = "idle"
    /\ ~tx.open
    /\ MlsEngine_db(db).ok
    /\ IF backend = "native"
       THEN DeleteGroupReturns(group_id, store, "err")
       ELSE \E order \in Perms(wasm_delete_group_keys(store, group_id)) :
            \E i \in 0..Len(order) :
            \E s \in TxDropped(backend, store, DeleteAll(store, SubSeq(order, 1, i))) :
                DeleteGroupReturns(group_id, s, "err")

\* the operation has returned; the next one may start
Finish ==
    /\ pc = "done"
    /\ pc' = "idle"
    /\ op' = NoOp
    /\ nops' = 0
    /\ updates' = NoUpdates
    /\ result' = "none"
    /\ seeded' = EmptyMap
    /\ final' = EmptyMap
    /\ rd' = NoRead
    /\ view' = EmptyMap
    /\ before' = NoBefore
    /\ UNCHANGED <<ext, backend, store, tx, initial, current>>

Next ==
    \/ \E hint \in Groups \cup {NULL} : OpLoadGlobal(hint)
    \/ \E g \in Groups : OpLoadForGroup(g)
    \/ \E e \in PlainEntities, v \in Values : StoreVal(e, v)
    \/ \E e \in PlainEntities \cup ListEntities : DeleteVal(e)
    \/ \E e \in ListEntities, item \in Items : AppendToList(e, item)
    \/ \E e \in ListEntities, item \in Items : RemoveFromList(e, item)
    \/ Abandon
    \/ IntoUpdates
    \/ CommitEmpty
    \/ SaveBegin
    \/ SaveBeginFail
    \/ SaveStmt
    \/ SaveStmtFail
    \/ SaveCommit
    \/ SaveCommitFail
    \/ \E g \in Groups : DeleteGroup(g)
    \/ \E g \in Groups : DeleteGroupFail(g)
    \/ Finish

Spec == Init /\ [][Next]_vars

(***************************************************************************)
(* A second operation loading while the first one saves                    *)
(***************************************************************************)
\* The load of a second operation, issued while save_updates runs.  It takes
\* the connection mutex (native) or opens its own read-only transaction
\* (sandboxed), so it reads once no write transaction is open.
ReaderLoaded(r, kind, gid) ==
    /\ pc \in {"saving", "done"}
    /\ op.kind \in {"global", "group"}
    /\ before.set
    /\ ~tx.open
    /\ MlsEngine_db(db).ok
    /\ rd = NoRead
    /\ r.ok
    /\ rd' = [kind |-> kind, gid |-> gid]
    /\ view' = r.entries
    /\ UNCHANGED <<ext, backend, store, tx, pc, op, initial, current, nops, updates, result,
                   seeded, final, before>>

ReaderLoadGlobal == ReaderLoaded(load_global(backend, store), "global", NULL)

ReaderLoadForGroup(group_id) ==
    ReaderLoaded(load_for_group(backend, store, group_id), "group", group_id)

NextReaders ==
    \/ Next
    \/ ReaderLoadGlobal
    \/ \E g \in Groups : ReaderLoadForGroup(g)

SpecReaders == Init /\ [][NextReaders]_vars

(***************************************************************************)
(* The life cycle of the store: create, operate, close, create again       *)
(***************************************************************************)
\* calls of open in one behaviour
MaxOpens == 2
\* calls of close on one engine
MaxCloses == 2

\* no store yet, no engine yet
InitFresh ==
    /\ backend \in {"native", "wasm"}
    /\ store = EmptyMap
    /\ tx = NoTx
    /\ pc = "idle"
    /\ op = NoOp
    /\ initial = EmptyMap
    /\ current = EmptyMap
    /\ nops = 0
    /\ updates = NoUpdates
    /\ result = "none"
    /\ seeded = EmptyMap
    /\ final = EmptyMap
    /\ rd = NoRead
    /\ view = EmptyMap
    /\ before = NoBefore
    /\ db = NoDb
    /\ disk = FreshDisk
    /\ opening = NoOpening
    /\ other = NoOther
    /\ arg = NoArg
    /\ ret = NoRet
    /\ host = EmptyMap
    /\ call = NoCall
    /\ hist = EmptyMap
    /\ leaked = {}

\* MlsEngine::create: EncryptedDb::open, and on success a new engine holding
\* the handle.  One engine at a time: none exists, or the last one was closed
\* and has no operation left in flight.
Open(key) ==
    /\ db.state \in {"none", "closed"}
    /\ pc = "idle"
    /\ ~tx.open
    /\ opening.n < MaxOpens
    /\ SealedWith(backend, disk, store) = {} => key.id = CryptoKey
    /\ \E r \in open(backend, key, disk, store) :
          /\ disk' = r.disk
          /\ store' = r.store
          /\ opening' = [n |-> opening.n + 1, key |-> key, res |-> r.res, steps |-> r.steps]
          /\ db' = IF r.res = "ok" THEN OpenDb(key.id) ELSE db
    /\ UNCHANGED <<paths, backend, tx, pc, op, initial, current, nops, updates, result,
                   rd, view, seeded, final, before, other, arg, ret>>

\* MlsEngine::close: take() the handle; Ok whether or not one was there
Close ==
    /\ db.state \in {"open", "closed"}
    /\ db.closes < MaxCloses
    /\ db' = [state |-> "closed", key |-> "none", closes |-> db.closes + 1]
    /\ UNCHANGED <<paths, backend, store, tx, pc, op, initial, current, nops, updates, result,
                   rd, view, seeded, final, before, disk, opening, other, arg, ret>>

\* an operation reaches db() on a closed engine: at its load, or in commit
\* when there is something to save
OpClosed ==
    /\ db.state = "closed"
    /\ ~MlsEngine_db(db).ok
    /\ \/ pc = "idle"
       \/ pc = "diffed" /\ ~(updates.upserts = <<>> /\ updates.deletes = <<>>)
    /\ pc' = "done"
    /\ result' = "closed"
    /\ UNCHANGED <<ext, backend, store, tx, op, initial, current, nops, updates,
                   rd, view, seeded, final, before>>

\* a newer build of the library had the store open and left its schema one
\* version ahead of LATEST_SCHEMA_VERSION
NewerBuildWrote ==
    /\ db.state \in {"none", "closed"}
    /\ pc = "idle"
    /\ ~tx.open
    /\ PersistedVersion(backend, disk, store) = LATEST_SCHEMA_VERSION
    /\ IF backend = "native"
       THEN /\ disk' = [disk EXCEPT !.version = <<LATEST_SCHEMA_VERSION + 1>>]
            /\ store' = store
       ELSE /\ store' = MapPut(store, WASM_META_KEY,
                               Row(wasm_encrypt(store[WASM_META_KEY].value.sealed_with,
                                                U32Be(LATEST_SCHEMA_VERSION + 1)), NULL))
            /\ disk' = disk
    /\ UNCHANGED <<paths, backend, tx, pc, op, initial, current, nops, updates, result,
                   rd, view, seeded, final, before, db, opening, other, arg, ret>>

NextLife ==
    \/ \E key \in OpenKeys : Open(key)
    \/ Close
    \/ OpClosed
    \/ NewerBuildWrote
    \/ \E hint \in Groups \cup {NULL} : OpLoadGlobal(hint)
    \/ \E g \in Groups : OpLoadForGroup(g)
    \/ \E e \in PlainEntities, v \in Values : StoreVal(e, v)
    \/ IntoUpdates
    \/ CommitEmpty
    \/ SaveBegin
    \/ SaveStmt
    \/ SaveCommit
    \/ Finish

SpecLife == InitFresh /\ [][NextLife]_vars

\* the rows after every statement of the changeset has been applied
RECURSIVE ApplyAll(_, _)
ApplyAll(image, stmts) ==
    IF stmts = <<>> THEN image ELSE ApplyAll(ApplyStmt(image, Head(stmts)), Tail(stmts))

(***************************************************************************)
(* Two operations on one group, each with its own snapshot                 *)
(***************************************************************************)
\* the one storage call the second operation makes
OtherCalls ==
    {[kind |-> "write", label |-> KEY_PACKAGE_LABEL, key |-> KpRef, val |-> v] : v \in Values}
    \cup {[kind |-> "append", label |-> OWN_LEAF_NODES_LABEL, key |-> GroupA, val |-> item] :
             item \in Items}

\* the snapshot's `current` after the storage call c
ApplyCall(cur, c) ==
    IF c.kind = "write" THEN write_val(cur, c.label, c.key, c.val)
    ELSE append_to_list(cur, c.label, c.key, c.val).current

\* MlsEngine::load_for_group by a second operation, on the group and from the
\* store state the first one has just loaded
OtherLoad ==
    /\ pc = "snap" /\ nops = 0 /\ op.kind = "group"
    /\ other.pc = "none"
    /\ MlsEngine_db(db).ok
    /\ ~tx.open
    /\ LET r == load_for_group(backend, store, op.gid)
       IN  /\ r.ok
           /\ other' = [pc |-> "snap", gid |-> op.gid,
                        initial |-> from_entries(r.entries).initial,
                        current |-> from_entries(r.entries).current,
                        call |-> [kind |-> "none"], updates |-> NoUpdates]
    /\ UNCHANGED <<paths, backend, store, tx, pc, op, initial, current, nops, updates, result,
                   rd, view, seeded, final, before, db, disk, opening, arg, ret>>

\* the second operation's storage call
OtherCall(c) ==
    /\ other.pc = "snap"
    /\ other.gid = GroupA \/ c.kind = "write"
    /\ other' = [other EXCEPT !.pc = "called", !.current = ApplyCall(other.current, c),
                              !.call = c]
    /\ UNCHANGED <<paths, backend, store, tx, pc, op, initial, current, nops, updates, result,
                   rd, view, seeded, final, before, db, disk, opening, arg, ret>>

\* MlsEngine::commit of the second operation, succeeding: into_updates, then
\* save_updates in one transaction once no other transaction is open
OtherCommit ==
    /\ other.pc = "called"
    /\ MlsEngine_db(db).ok
    /\ ~tx.open
    /\ \E u \in into_updates(other.initial, other.current) :
          /\ store' = ApplyAll(store, statements(backend, u, other.gid))
          /\ other' = [other EXCEPT !.pc = "done", !.updates = u]
    /\ UNCHANGED <<paths, backend, tx, pc, op, initial, current, nops, updates, result,
                   rd, view, seeded, final, before, db, disk, opening, arg, ret>>

\* the second operation has returned
OtherReturn ==
    /\ other.pc = "done"
    /\ pc = "idle"
    /\ other' = NoOther
    /\ UNCHANGED <<paths, backend, store, tx, pc, op, initial, current, nops, updates, result,
                   rd, view, seeded, final, before, db, disk, opening, arg, ret>>

NextTwo ==
    \/ \E g \in Groups : OpLoadForGroup(g)
    \/ \E e \in ListEntities, item \in Items : AppendToList(e, item)
    \/ IntoUpdates
    \/ CommitEmpty
    \/ SaveBegin
    \/ SaveStmt
    \/ SaveCommit
    \/ Finish
    \/ OtherLoad
    \/ \E c \in OtherCalls : OtherCall(c)
    \/ OtherCommit
    \/ OtherReturn

SpecTwo == Init /\ [][NextTwo]_vars

(***************************************************************************)
(* The key codec on its own: two logical keys of one entity kind are       *)
(* encoded as the storage operations encode them, then classified as the   *)
(* store classifies them                                                   *)
(***************************************************************************)

MaxIdLen == 2
MaxEpoch == 11
MaxLeaf == 10

\* bytes of an identifier: one-digit and two-digit decimal values
IdBytes == {1, 2, 12}

RECURSIVE SeqsUpTo(_)
\* the byte strings of length at most n
SeqsUpTo(n) ==
    IF n = 0 THEN {<<>>}
    ELSE LET shorter == SeqsUpTo(n - 1)
         IN  shorter \cup {Append(s, x) : s \in {q \in shorter : Len(q) = n - 1}, x \in IdBytes}

\* a logical key: one identifier (a group id, a reference, a public key),
\* an identifier and a proposal reference, or an identifier, an epoch and a
\* leaf index; the parts a kind does not have are left empty
LogicalKey(id, ref, epoch, leaf) == [id |-> id, ref |-> ref, epoch |-> epoch, leaf |-> leaf]

Ids == SeqsUpTo(MaxIdLen)

\* logical keys of the entities keyed by one identifier
SerdeKeys == {LogicalKey(id, <<>>, 0, 0) : id \in Ids}

\* logical keys of individual queued proposals
ProposalKeys == {LogicalKey(g, r, 0, 0) : g \in Groups, r \in Ids}

\* logical keys of per-epoch key pairs
EpochKeys == {LogicalKey(g, <<>>, e, l) : g \in Groups, e \in 0..MaxEpoch, l \in 0..MaxLeaf}

\* pairs of logical keys of one entity kind, by the way the kind is keyed
KeyInputs(kind) ==
    CASE kind = "serde" ->
            {[kind |-> "serde", label |-> l, a |-> a, b |-> b] :
                l \in Labels, a \in SerdeKeys, b \in SerdeKeys}
      [] kind = "pair" ->
            {[kind |-> "pair", label |-> QUEUED_PROPOSAL_LABEL, a |-> a, b |-> b] :
                a \in ProposalKeys, b \in ProposalKeys}
      [] kind = "epoch" ->
            {[kind |-> "epoch", label |-> EPOCH_KEY_PAIRS_LABEL, a |-> a, b |-> b] :
                a \in {k \in EpochKeys : k.id = GroupA}, b \in EpochKeys}

\* the composite key the storage operation of that kind builds
ComposeKey(kind, label, k) ==
    CASE kind = "serde" -> build_key_serde(label, k.id)
      [] kind = "pair" -> build_key_pair(label, k.id, k.ref)
      [] kind = "epoch" -> build_epoch_key(k.id, k.epoch, k.leaf)

InitKeys ==
    /\ backend \in {"native", "wasm"}
    /\ store = OpenedStore(backend)
    /\ tx = NoTx
    /\ pc = "idle"
    /\ op = NoOp
    /\ initial = EmptyMap
    /\ current = EmptyMap
    /\ nops = 0
    /\ updates = NoUpdates
    /\ result = "none"
    /\ seeded = EmptyMap
    /\ final = EmptyMap
    /\ rd = NoRead
    /\ view = EmptyMap
    /\ before = NoBefore
    /\ db = OpenDb(CryptoKey)
    /\ disk = OpenedDisk(backend)
    /\ opening = NoOpening
    /\ other = NoOther
    /\ \E kind \in {"serde", "pair", "epoch"} : arg \in KeyInputs(kind)
    /\ ret = NoRet
    /\ host = EmptyMap
    /\ call = NoCall
    /\ hist = EmptyMap
    /\ leaked = {}

\* the storage operation builds the composite key of each logical key
BuildKeys ==
    /\ arg.kind # "none"
    /\ ret.kind = "none"
    /\ ret' = [kind |-> "keys",
               ka |-> ComposeKey(arg.kind, arg.label, arg.a),
               kb |-> ComposeKey(arg.kind, arg.label, arg.b)]
    /\ UNCHANGED <<paths, backend, store, tx, pc, op, initial, current, nops, updates, result,
                   rd, view, seeded, final, before, db, disk, opening, other, arg>>

\* the store classifies each composite key
Classify ==
    /\ ret.kind = "keys"
    /\ ret' = [kind |-> "scope", ka |-> ret.ka, kb |-> ret.kb,
               ga |-> is_global_key(ret.ka), gb |-> is_global_key(ret.kb)]
    /\ UNCHANGED <<paths, backend, store, tx, pc, op, initial, current, nops, updates, result,
                   rd, view, seeded, final, before, db, disk, opening, other, arg>>

NextKeys ==
    \/ BuildKeys
    \/ Classify

SpecKeys == InitKeys /\ [][NextKeys]_vars

(***************************************************************************)
(* The two storage providers side by side: the protocol engine makes the   *)
(* same storage calls on a snapshot and on the callback adapter, whose     *)
(* host store starts with the snapshot's entries                           *)
(***************************************************************************)

MaxCalls == 4

\* key package references, the logical keys of the plain entries
RefA == <<1>>
RefB == <<2>>
RefC == <<3>>
RefD == <<4>>

StorageCall(kind, label, key, ref, val) ==
    [kind |-> kind, label |-> label, key |-> key, ref |-> ref, val |-> val]

\* the storage calls the protocol engine chooses from
StorageCalls ==
    {StorageCall("write", KEY_PACKAGE_LABEL, RefA, <<>>, v) : v \in Values}
    \cup {StorageCall("delete", KEY_PACKAGE_LABEL, k, <<>>, <<>>) : k \in {RefA, RefB}}
    \cup {StorageCall("append", OWN_LEAF_NODES_LABEL, GroupA, <<>>, item) :
             item \in {<<7>>, <<8>>}}
    \cup {StorageCall("write", KEY_PACKAGE_LABEL, RefB, <<>>, <<49>>),
          StorageCall("read", KEY_PACKAGE_LABEL, RefA, <<>>, <<>>),
          StorageCall("remove", OWN_LEAF_NODES_LABEL, GroupA, <<>>, <<7>>),
          StorageCall("read_list", OWN_LEAF_NODES_LABEL, GroupA, <<>>, <<>>),
          StorageCall("queue", QUEUED_PROPOSAL_LABEL, GroupA, ProposalRef, <<49>>)}

\* the entries a snapshot is seeded with
SeedAB ==
    (build_key_serde(KEY_PACKAGE_LABEL, RefA) :> <<49>>)
        @@ (build_key_serde(KEY_PACKAGE_LABEL, RefB) :> <<50>>)
Seeds == {EmptyMap, SeedAB}

\* store A=1, store B=3, delete C, store D=4
ExampleCalls ==
    <<StorageCall("write", KEY_PACKAGE_LABEL, RefA, <<>>, <<49>>),
      StorageCall("write", KEY_PACKAGE_LABEL, RefB, <<>>, <<51>>),
      StorageCall("delete", KEY_PACKAGE_LABEL, RefC, <<>>, <<>>),
      StorageCall("write", KEY_PACKAGE_LABEL, RefD, <<>>, <<52>>)>>

\* A run: the protocol engine chooses its storage calls freely, or makes the
\* calls of the example
Runs ==
    {[kind |-> "free", seed |-> s, calls |-> <<>>] : s \in Seeds}
    \cup {[kind |-> "script", seed |-> SeedAB, calls |-> ExampleCalls]}

\* the storage calls of all runs
RunCalls == StorageCalls \cup {ExampleCalls[i] : i \in 1..Len(ExampleCalls)}

\* the call c is the next one of the run
NextCall(c) ==
    \/ /\ arg.kind = "free"
       /\ c \in StorageCalls
       /\ nops < MaxCalls
       /\ c.kind \in {"append", "queue"} =>
             LET key == IF c.kind = "queue"
                        THEN build_key_serde(PROPOSAL_QUEUE_REFS_LABEL, c.key)
                        ELSE build_key_serde(c.label, c.key)
                 got == kv_read(current, key)
             IN  got.some => Len(from_slice_list(got.bytes).list) < MaxList
    \/ /\ arg.kind = "script"
       /\ nops < Len(arg.calls)
       /\ c = arg.calls[nops + 1]

\* Ok(()), Ok(None), Ok(vec![])
OkUnit == [ok |-> TRUE, some |-> FALSE, bytes |-> <<>>, list |-> <<>>]

\* Err(Serialization(..))
ErrSerialization == [ok |-> FALSE, some |-> FALSE, bytes |-> <<>>, list |-> <<>>]

\* the composite key the list helpers of a storage call read and write
ListKey(c) ==
    IF c.kind = "queue" THEN build_key_serde(PROPOSAL_QUEUE_REFS_LABEL, c.key)
    ELSE build_key_serde(c.label, c.key)

\* A storage call on the snapshot: the map it leaves, what it returns and the
\* value buffers its kv_write / kv_delete took out of the map
SnapshotDo(cur, c) ==
    LET k == build_key_serde(c.label, c.key)
        unit(r, key) == [current |-> r.current,
                         res |-> IF r.ok THEN OkUnit ELSE ErrSerialization,
                         dropped |-> IF r.current = cur /\ ~r.ok THEN {} ELSE Replaced(cur, key)]
    IN  CASE c.kind = "write" ->
                [current |-> write_val(cur, c.label, c.key, c.val), res |-> OkUnit,
                 dropped |-> Replaced(cur, k)]
          [] c.kind = "delete" ->
                [current |-> delete_val(cur, c.label, c.key), res |-> OkUnit,
                 dropped |-> Replaced(cur, k)]
          [] c.kind = "read" ->
                [current |-> cur, res |-> read_val(cur, c.label, c.key), dropped |-> {}]
          [] c.kind = "read_list" ->
                [current |-> cur, res |-> read_list(cur, c.label, c.key), dropped |-> {}]
          [] c.kind = "append" ->
                unit(append_to_list(cur, c.label, c.key, c.val), k)
          [] c.kind = "remove" ->
                LET r == remove_from_list(cur, c.label, c.key, c.val)
                IN  [current |-> r.current,
                     res |-> IF r.ok THEN OkUnit ELSE ErrSerialization,
                     dropped |-> IF r.ok /\ k \in DOMAIN cur THEN Replaced(cur, k) ELSE {}]
          [] c.kind = "queue" ->
                LET pk == build_key_pair(c.label, c.key, c.ref)
                    r == queue_proposal(cur, c.key, c.ref, c.val)
                IN  [current |-> r.current,
                     res |-> IF r.ok THEN OkUnit ELSE ErrSerialization,
                     dropped |-> Replaced(cur, pk)
                                 \cup (IF r.ok THEN Replaced(cur, ListKey(c)) ELSE {})]

\* what a helper of the callback adapter does next: a host primitive to call
\* and block on, or the result to return
Prim(do, key, val) == [do |-> do, key |-> key, val |-> val, res |-> OkUnit]
Return(res) == [do |-> "return", key |-> <<>>, val |-> <<>>, res |-> res]

\* the result of the latest read primitive, before any was called
NoGot == [some |-> FALSE, bytes |-> <<>>]

\* write_val checking for the key before it writes
dart_write_val_read_first(label, key, val, stage) ==
    IF stage = 0 THEN Prim("read", build_key_serde(label, key), <<>>)
    ELSE IF stage = 1 THEN Prim("write", build_key_serde(label, key), val)
    ELSE Return(OkUnit)

dart_write_val(label, key, val, stage) ==
    IF stage = 0 THEN Prim("write", build_key_serde(label, key), val) ELSE Return(OkUnit)

dart_read_val(label, key, stage, got) ==
    IF stage = 0 THEN Prim("read", build_key_serde(label, key), <<>>)
    ELSE Return([ok |-> TRUE, some |-> got.some, bytes |-> got.bytes, list |-> <<>>])

dart_delete_val(label, key, stage) ==
    IF stage = 0 THEN Prim("delete", build_key_serde(label, key), <<>>) ELSE Return(OkUnit)

\* append_to_list writing a list of the new item alone
dart_append_to_list_item_only(storage_key, item, stage, got) ==
    IF stage = 0 THEN Prim("read", storage_key, <<>>)
    ELSE IF stage = 1 THEN Prim("write", storage_key, JsonList(<<item>>))
    ELSE Return(OkUnit)

dart_append_to_list(storage_key, item, stage, got) ==
    LET parsed == IF got.some THEN from_slice_list(got.bytes) ELSE [ok |-> TRUE, list |-> <<>>]
    IN  IF stage = 0 THEN Prim("read", storage_key, <<>>)
        ELSE IF stage = 1
        THEN IF parsed.ok THEN Prim("write", storage_key, JsonList(Append(parsed.list, item)))
             ELSE Return(ErrSerialization)
        ELSE Return(OkUnit)

dart_read_list(label, key, stage, got) ==
    LET parsed == IF got.some THEN from_slice_list(got.bytes) ELSE [ok |-> TRUE, list |-> <<>>]
    IN  IF stage = 0 THEN Prim("read", build_key_serde(label, key), <<>>)
        ELSE Return([ok |-> parsed.ok, some |-> FALSE, bytes |-> <<>>, list |-> parsed.list])

dart_remove_from_list(storage_key, item, stage, got) ==
    LET parsed == from_slice_list(got.bytes)
        list == parsed.list
        hits == {i \in 1..Len(list) : list[i] = item}
        pos == CHOOSE i \in hits : \A j \in hits : i <= j
    IN  IF stage = 0 THEN Prim("read", storage_key, <<>>)
        ELSE IF stage = 1
        THEN IF ~got.some THEN Return(OkUnit)
             ELSE IF ~parsed.ok THEN Return(ErrSerialization)
             ELSE Prim("write", storage_key,
                       JsonList(IF hits = {} THEN list ELSE RemoveAt(list, pos)))
        ELSE Return(OkUnit)

dart_queue_proposal(group_id, proposal_ref, proposal, stage, got) ==
    IF stage = 0
    THEN Prim("write", build_key_pair(QUEUED_PROPOSAL_LABEL, group_id, proposal_ref), proposal)
    ELSE dart_append_to_list(build_key_serde(PROPOSAL_QUEUE_REFS_LABEL, group_id),
                             JsonBytes(proposal_ref), stage - 1, got)

\* the storage call c on the callback adapter, `stage` primitives into it
DartNext(c, stage, got) ==
    CASE c.kind = "write" -> dart_write_val(c.label, c.key, c.val, stage)
      [] c.kind = "read" -> dart_read_val(c.label, c.key, stage, got)
      [] c.kind = "delete" -> dart_delete_val(c.label, c.key, stage)
      [] c.kind = "append" ->
            dart_append_to_list(build_key_serde(c.label, c.key), c.val, stage, got)
      [] c.kind = "read_list" -> dart_read_list(c.label, c.key, stage, got)
      [] c.kind = "remove" ->
            dart_remove_from_list(build_key_serde(c.label, c.key), c.val, stage, got)
      [] c.kind = "queue" -> dart_queue_proposal(c.key, c.ref, c.val, stage, got)

\* how the rejection of a host primitive's future can end the blocked call:
\* no helper has a result to carry it, so the call panics or never returns
RejectOutcomes == {"panicked", "blocked"}

InitPaths ==
    /\ backend = "native"
    /\ store = OpenedStore(backend)
    /\ tx = NoTx
    /\ pc = "snap"
    /\ op = NoOp
    /\ arg \in Runs
    /\ initial = from_entries(arg.seed).initial
    /\ current = from_entries(arg.seed).current
    /\ nops = 0
    /\ updates = NoUpdates
    /\ result = "none"
    /\ seeded = arg.seed
    /\ final = EmptyMap
    /\ rd = NoRead
    /\ view = EmptyMap
    /\ before = NoBefore
    /\ db = OpenDb(CryptoKey)
    /\ disk = OpenedDisk(backend)
    /\ opening = NoOpening
    /\ other = NoOther
    /\ ret = NoRet
    /\ host = arg.seed
    /\ call = NoCall
    /\ hist = EmptyMap
    /\ leaked = {}

\* The protocol engine makes its next storage call.  The snapshot serves it
\* from memory; the callback adapter starts on it.
EngineCall(c) ==
    /\ pc = "snap"
    /\ NextCall(c)
    /\ call.status \in {"none", "returned"}
    /\ LET r == SnapshotDo(current, c)
           k == build_key_serde(c.label, c.key)
       IN  /\ current' = r.current
           /\ ret' = [kind |-> "call", c |-> c, res |-> r.res]
           /\ leaked' = leaked \cup r.dropped
           /\ hist' = CASE c.kind = "write" -> MapPut(hist, k, [stored |-> TRUE, val |-> c.val])
                        [] c.kind = "delete" -> MapPut(hist, k, [stored |-> FALSE, val |-> <<>>])
                        [] OTHER -> hist
           /\ call' = [status |-> "running", c |-> c, stage |-> 0, got |-> NoGot,
                       res |-> OkUnit, log |-> <<>>, rejected |-> FALSE]
    /\ nops' = nops + 1
    /\ UNCHANGED <<backend, store, tx, pc, op, initial, updates, result, rd, view, seeded,
                   final, before, db, disk, opening, other, arg, host>>

\* block_on: the host primitive the adapter called resolves
HostResolve ==
    /\ call.status = "running"
    /\ LET nx == DartNext(call.c, call.stage, call.got)
       IN  /\ nx.do # "return"
           /\ host' = CASE nx.do = "write" -> MapPut(host, nx.key, nx.val)
                        [] nx.do = "delete" -> MapDel(host, nx.key)
                        [] nx.do = "read" -> host
           /\ call' = [call EXCEPT
                          !.stage = @ + 1,
                          !.got = IF nx.do = "read"
                                  THEN IF nx.key \in DOMAIN host
                                       THEN [some |-> TRUE, bytes |-> host[nx.key]]
                                       ELSE NoGot
                                  ELSE @,
                          !.log = Append(@, [do |-> nx.do, key |-> nx.key, val |-> nx.val])]
    /\ UNCHANGED <<backend, store, tx, pc, op, initial, current, nops, updates, result, rd,
                   view, seeded, final, before, db, disk, opening, other, arg, ret, hist,
                   leaked>>

\* block_on: the host primitive the adapter called rejects
HostReject(outcome) ==
    /\ call.status = "running"
    /\ LET nx == DartNext(call.c, call.stage, call.got)
       IN  /\ nx.do # "return"
           /\ call' = [call EXCEPT
                          !.status = outcome,
                          !.rejected = TRUE,
                          !.log = Append(@, [do |-> nx.do, key |-> nx.key, val |-> nx.val])]
    /\ UNCHANGED <<backend, store, tx, pc, op, initial, current, nops, updates, result, rd,
                   view, seeded, final, before, db, disk, opening, other, arg, ret, host,
                   hist, leaked>>

\* the adapter's storage call returns to the protocol engine
CallbackReturn ==
    /\ call.status = "running"
    /\ LET nx == DartNext(call.c, call.stage, call.got)
       IN  /\ nx.do = "return"
           /\ call' = [call EXCEPT !.status = "returned", !.res = nx.res]
    /\ UNCHANGED <<backend, store, tx, pc, op, initial, current, nops, updates, result, rd,
                   view, seeded, final, before, db, disk, opening, other, arg, ret, host,
                   hist, leaked>>

\* the protocol operation can end: its latest storage call has returned
RunCanEnd ==
    /\ call.status \in {"none", "returned"}
    /\ arg.kind = "script" => nops = Len(arg.calls)

NextPaths ==
    \/ \E c \in RunCalls : EngineCall(c)
    \/ HostResolve
    \/ \E outcome \in RejectOutcomes : HostReject(outcome)
    \/ CallbackReturn
    \/ (RunCanEnd /\ IntoUpdates)
    \/ (RunCanEnd /\ Abandon)

SpecPaths == InitPaths /\ [][NextPaths]_vars

(***************************************************************************)
(* Claims                                                                  *)
(***************************************************************************)
UpsertKeys(u) == {u.upserts[i][1] : i \in 1..Len(u.upserts)}
DeleteKeys(u) == {u.deletes[i] : i \in 1..Len(u.deletes)}

\* the step that diffs the snapshot
IntoUpdatesStep == pc = "snap" /\ pc' = "diffed"
\* the step in which MlsEngine::commit returns Ok
CommitOkStep == pc \in {"diffed", "saving"} /\ pc' = "done" /\ result' = "ok"
\* the step in which save_updates returns an error
SaveErrStep == pc \in {"diffed", "saving"} /\ pc' = "done" /\ result' = "err"
\* the steps in which a load returns its snapshot
LoadForGroupStep == pc = "idle" /\ pc' = "snap" /\ op'.kind = "group"
LoadGlobalStep == pc = "idle" /\ pc' = "snap" /\ op'.kind = "global"
\* the step in which EncryptedDb::delete_group returns
DeleteGroupStep == pc = "idle" /\ pc' = "done" /\ op'.kind = "delete_group"

\* the group a row is scoped to (NULL: global, or the reserved metadata row):
\* the group_id column on the native backend, the key itself on the sandboxed one
RowScope(b, s, k) ==
    IF b = "native" THEN s[k].group_id
    ELSE IF k = WASM_META_KEY \/ is_global_key(k) THEN NULL
    ELSE KeyGroup(k)

\* what the load `r` returns from the rows `s`
LoadOf(r, s) ==
    IF r.kind = "global" THEN load_global(backend, s).entries
    ELSE load_for_group(backend, s, r.gid).entries

\* C1: when commit succeeds on a store whose key/value content equalled the
\* seed, the store's key/value content is the snapshot's final `current`.
C1_DiffAppliedYieldsCurrent ==
    [][(CommitOkStep /\ StoreContent(backend, store) = seeded)
         => StoreContent(backend, store') = final]_vars

C1_Witness ==
    /\ pc = "done" /\ result = "ok" /\ op.kind \in {"global", "group"}
    /\ updates.upserts # <<>> /\ updates.deletes # <<>>
    /\ before.set /\ StoreContent(backend, before.rows) = seeded
    /\ StoreContent(backend, store) = final

\* C2: diff completeness: every key of `current` that is new or whose value
\* differs from `initial` is in upserts exactly once, with its `current` value;
\* every key of `initial` missing from `current` is in deletes exactly once;
\* no key is in both lists.
C2_DiffComplete ==
    [][IntoUpdatesStep =>
        /\ \A k \in DOMAIN current :
              (k \notin DOMAIN initial \/ initial[k] # current[k]) =>
                 /\ Cardinality({i \in 1..Len(updates'.upserts) :
                                    updates'.upserts[i][1] = k}) = 1
                 /\ \E i \in 1..Len(updates'.upserts) :
                        updates'.upserts[i] = <<k, current[k]>>
        /\ \A k \in (DOMAIN initial) \ (DOMAIN current) :
              Cardinality({i \in 1..Len(updates'.deletes) : updates'.deletes[i] = k}) = 1
        /\ UpsertKeys(updates') \cap DeleteKeys(updates') = {}]_vars

C2_Witness ==
    /\ pc = "diffed"
    /\ \E k \in UpsertKeys(updates) : k \in DOMAIN seeded /\ seeded[k] # final[k]
    /\ \E k \in DeleteKeys(updates) : k \in DOMAIN seeded /\ k \notin DOMAIN final

\* C3: diff minimality: a key whose value in `current` equals its value in
\* `initial` is in neither list, a key absent from both maps is in neither
\* list, and a snapshot no storage call was made on diffs to the empty changeset.
C3_DiffMinimal ==
    [][IntoUpdatesStep =>
        /\ \A k \in Keys :
              ((k \in DOMAIN initial /\ k \in DOMAIN current /\ initial[k] = current[k])
                 \/ (k \notin DOMAIN initial /\ k \notin DOMAIN current))
              => k \notin UpsertKeys(updates') \cup DeleteKeys(updates')
        /\ (nops = 0 => updates' = NoUpdates)]_vars

C3_Witness ==
    /\ pc = "diffed" /\ nops >= 2
    /\ seeded # EmptyMap /\ final = seeded
    /\ updates = NoUpdates

\* C4: while the snapshot lives, `initial` is the entries it was seeded with,
\* whatever storage calls were made; only `current` moves.
C4_InitialNeverMutated == pc = "snap" => initial = seeded

C4_Witness ==
    /\ pc = "snap" /\ nops >= 2
    /\ initial # EmptyMap /\ current # initial
    /\ initial = seeded

\* C5: from the load until the snapshot is diffed or dropped, no step changes
\* the physical store: a snapshot dropped before save_updates persists nothing.
C5_AbandonPersistsNothing == [][pc = "snap" => (store' = store /\ tx' = tx)]_vars

C5_Witness ==
    /\ pc = "done" /\ result = "abandoned" /\ nops >= 2
    /\ seeded # EmptyMap
    /\ LoadOf(op, store) = seeded

\* C6: a load that runs while save_updates is in flight returns the rows as
\* they were before the call or with the whole changeset applied.
C6_ReaderSeesWholeChangesets ==
    rd.kind # "none" =>
        view \in {LoadOf(rd, before.rows),
                  LoadOf(rd, ApplyAll(before.rows, statements(backend, updates, op.hint)))}

\* C7: when save_updates returns an error, the store holds what it held before.
C7_FailedSaveHasNoEffect == [][SaveErrStep => store' = store]_vars

C9_DeleteGroupIsolated ==
    [][(DeleteGroupStep /\ result' = "ok") =>
        /\ \A k \in DOMAIN store :
              IF RowScope(backend, store, k) = op'.gid
              THEN k \notin DOMAIN store'
              ELSE k \in DOMAIN store' /\ store'[k] = store[k]
        /\ DOMAIN store' \subseteq DOMAIN store]_vars

\* C10: a row whose key is global carries no group, whatever hint save_updates
\* was given; delete_group leaves every such row as it was; load_global returns
\* every such row.
C10_GlobalUpsertOutlivesGroups ==
    [][/\ \A k \in DOMAIN store' : is_global_key(k) => store'[k].group_id = NULL
       /\ DeleteGroupStep =>
             \A k \in DOMAIN store :
                is_global_key(k) => (k \in DOMAIN store' /\ store'[k] = store[k])
       /\ LoadGlobalStep =>
             \A k \in DOMAIN store :
                is_global_key(k) =>
                   (k \in DOMAIN initial' /\ initial'[k] = StoreContent(backend, store)[k])]_vars

C10_Witness ==
    /\ pc = "done" /\ result = "ok" /\ op.kind = "global" /\ op.hint \in Groups
    /\ \E k \in UpsertKeys(updates) : is_global_key(k)
    /\ \E k \in UpsertKeys(updates) : ~is_global_key(k) /\ k \in DOMAIN store
    /\ \A k \in UpsertKeys(updates) :
          is_global_key(k) => (k \in DOMAIN store /\ store[k].group_id = NULL)

\* C11: load_global returns exactly the rows whose key carries a global
\* label, whatever hints the rows were saved with.
C11_LoadGlobalExact ==
    [][LoadGlobalStep =>
        DOMAIN initial' =
            {k \in DOMAIN StoreContent(backend, store) : is_global_key(k)}]_vars

\* C12: load_for_group(G) returns every global row and every row scoped to G,
\* with its value; after a successful delete_group(G), load_for_group(G)
\* returns what load_global returns, and that still holds every global row.
C12_LoadForGroupComplete ==
    [][/\ LoadForGroupStep =>
             \A k \in DOMAIN StoreContent(backend, store) :
                RowScope(backend, store, k) \in {op'.gid, NULL} =>
                   (k \in DOMAIN initial' /\ initial'[k] = StoreContent(backend, store)[k])
       /\ (DeleteGroupStep /\ result' = "ok") =>
             LET group_rows == load_for_group(backend, store', op'.gid).entries
                 global_rows == load_global(backend, store').entries
             IN  /\ group_rows = global_rows
                 /\ \A k \in DOMAIN StoreContent(backend, store) :
                       RowScope(backend, store, k) = NULL =>
                          (k \in DOMAIN global_rows
                             /\ global_rows[k] = StoreContent(backend, store)[k])]_vars

C12_Witness ==
    /\ pc = "done" /\ op.kind = "delete_group" /\ op.gid = GroupB /\ result = "ok"
    /\ before.set
    /\ {KpKey, TreeKey(GroupB)} \subseteq DOMAIN before.rows
    /\ RowScope(backend, before.rows, TreeKey(GroupB)) = GroupB
    /\ DOMAIN load_for_group(backend, before.rows, GroupB).entries = {KpKey, TreeKey(GroupB)}
    /\ DOMAIN load_for_group(backend, store, GroupB).entries = {KpKey}
    /\ DOMAIN load_global(backend, store).entries = {KpKey}

\* the step in which MlsEngine::create returns
OpenStep == opening'.n = opening.n + 1
\* the step in which MlsEngine::close returns
CloseStep == db'.closes = db.closes + 1
\* a step in which an operation calls db(): at its load, at delete_group, or
\* in commit with a changeset to save
CallsDbStep ==
    \/ pc = "idle" /\ pc' # "idle"
    \/ pc = "diffed" /\ pc' # "diffed" /\ ~(updates.upserts = <<>> /\ updates.deletes = <<>>)

\* C13: a successful open of a store whose persisted version is V < LATEST
\* (none recorded: 0) applies the steps V+1, ..., LATEST in that order; after
\* any successful open the persisted version is LATEST, which is what
\* schema_version() reports.
C13_MigrationMonotone ==
    [][(OpenStep /\ opening'.res = "ok") =>
        LET V == PersistedVersion(backend, disk, store)
        IN  /\ V < LATEST_SCHEMA_VERSION =>
                  opening'.steps = [i \in 1..(LATEST_SCHEMA_VERSION - V) |-> V + i]
            /\ PersistedVersion(backend, disk', store') = LATEST_SCHEMA_VERSION
            /\ schema_version = PersistedVersion(backend, disk', store')]_vars

C13_Witness ==
    /\ opening.res = "ok" /\ opening.steps = <<1>>
    /\ db.state = "open"
    /\ PersistedVersion(backend, disk, store) = LATEST_SCHEMA_VERSION

\* C14: open of a store whose persisted version exceeds LATEST fails, with the
\* unsupported-future-schema error unless the key or the I/O failed first;
\* no handle is made and neither the rows nor what persists beside them change.
C14_FutureSchemaRefused ==
    [][(OpenStep /\ PersistedVersion(backend, disk, store) > LATEST_SCHEMA_VERSION) =>
        /\ opening'.res # "ok"
        /\ (opening'.key.len = KEY_LEN /\ opening'.key.id \in SealedWith(backend, disk, store)
              /\ opening'.res # "io") => opening'.res = "future"
        /\ db' = db
        /\ store' = store
        /\ disk' = disk]_vars

C14_Witness ==
    /\ opening.res = "future"
    /\ db.state # "open"
    /\ PersistedVersion(backend, disk, store) = LATEST_SCHEMA_VERSION + 1
    /\ DOMAIN StoreContent(backend, store) # {}

\* C15: open of a store in which something is sealed under K1, with a 32-byte
\* key other than K1, fails and makes no handle; whenever a handle is open,
\* everything in the store is sealed under the handle's key.
C15_WrongKeyRejected ==
    [][/\ (OpenStep /\ opening'.key.len = KEY_LEN
             /\ SealedWith(backend, disk, store) # {}
             /\ opening'.key.id \notin SealedWith(backend, disk, store)) =>
               (opening'.res \in {"wrong_key", "decrypt", "io"} /\ db' = db)
       /\ db'.state = "open" => SealedWith(backend, disk', store') \subseteq {db'.key}]_vars

C15_Witness ==
    /\ opening.n = 2 /\ opening.key = [id |-> "K2", len |-> KEY_LEN]
    /\ opening.res \in {"wrong_key", "decrypt"}
    /\ db.state = "closed"
    /\ SealedWith(backend, disk, store) = {CryptoKey}
    /\ DOMAIN StoreContent(backend, store) # {}

\* C16: open with a key that is not 32 bytes long fails with the
\* configuration error and changes nothing: no handle, no store created, no
\* existing store touched.
C16_KeyLengthChecked ==
    [][(OpenStep /\ opening'.key.len # KEY_LEN) =>
        /\ opening'.res = "config"
        /\ db' = db
        /\ store' = store
        /\ disk' = disk]_vars

C16_Witness ==
    /\ opening.res = "config" /\ opening.key.len # KEY_LEN
    /\ disk = FreshDisk /\ store = EmptyMap /\ db = NoDb

\* C17: every close leaves the engine closed without touching the store, a
\* close of a closed engine changes nothing else; on a closed engine every
\* step that calls db() returns "MlsEngine is closed" and leaves the store
\* and its transaction alone.
C17_CloseIdempotent ==
    [][/\ CloseStep =>
             /\ db'.state = "closed" /\ db'.key = "none"
             /\ is_closed'
             /\ store' = store /\ disk' = disk /\ tx' = tx
       /\ (db.state = "closed" /\ CallsDbStep) =>
             /\ result' = "closed"
             /\ is_closed'
             /\ store' = store /\ disk' = disk /\ tx' = tx]_vars

C17_Witness ==
    /\ db.state = "closed" /\ db.closes = 2
    /\ pc = "done" /\ result = "closed"
    /\ DOMAIN StoreContent(backend, store) # {}

\* the step in which the second operation's commit returns Ok
OtherCommitStep == other.pc = "called" /\ other'.pc = "done"

\* C18: when the second operation persists its changeset, every key it wrote
\* holds what its storage call yields on the rows as they then stood: what the
\* first operation persisted in the meantime is kept.
C18_NoLostWrites ==
    [][OtherCommitStep =>
        LET redo == ApplyCall(load_for_group(backend, store, other.gid).entries, other.call)
        IN  \A k \in UpsertKeys(other'.updates) :
               StoreContent(backend, store')[k] = redo[k]]_vars

\* C19: key encoding is injective: for a fixed label and version, two distinct
\* logical keys of the same entity kind never produce the same composite key,
\* per-epoch key pairs (group id, epoch, leaf index) included.
C19_KeyEncodingInjective ==
    ret.kind = "keys" => (arg.a # arg.b => ret.ka # ret.kb)

\* C20: for each of the 18 entity labels and every logical key, is_global_key
\* of the composite key built with that label is true exactly when the label
\* is KeyPackage, Psk, EncryptionKeyPair or SignatureKeyPair; a key built with
\* any other label is classified group-scoped.
C20_ScopeByLabel ==
    ret.kind = "scope" =>
        /\ ret.ga <=> (arg.label \in GLOBAL_LABELS)
        /\ ret.gb <=> (arg.label \in GLOBAL_LABELS)

\* a resumption PSK key, whose label ends in a global label, was classified
\* group-scoped
C20_Witness ==
    /\ ret.kind = "scope"
    /\ arg.label = RESUMPTION_PSK_STORE_LABEL
    /\ arg.a.id # <<>>
    /\ ~ret.ga

\* the state is one of a run of storage calls on the two providers
InRun == arg.kind \in {"free", "script"}

\* a step in which the protocol engine makes a storage call of kind `kind`
EngineCallStep(kind) ==
    InRun /\ nops' = nops + 1 /\ ret'.c.kind = kind

\* the list a list entry of the snapshot holds
ListOf(cur, c) == read_list(cur, c.label, c.key).list

\* C21: a load on the snapshot is an exact lookup in `current`: it returns the
\* value of the most recent store of the key unless a delete followed it, the
\* seeded value if the key was never stored or deleted, and otherwise an
\* absent result that is not an error; reading the list of an absent key
\* returns the empty list.
C21_LoadIsExactLookup ==
    (InRun /\ ret.kind = "call") =>
        LET k == build_key_serde(ret.c.label, ret.c.key)
            present == IF k \in DOMAIN hist THEN hist[k].stored ELSE k \in DOMAIN seeded
            value == IF k \in DOMAIN hist THEN hist[k].val ELSE seeded[k]
        IN  /\ ret.c.kind = "read" =>
                /\ ret.res.ok
                /\ ret.res.some <=> present
                /\ present => ret.res.bytes = value
            /\ (ret.c.kind = "read_list" /\ pc = "snap" /\ k \notin DOMAIN current) =>
                /\ ret.res.ok
                /\ ret.res.list = <<>>

\* a seeded key was deleted and then read: the read returned an absent result
C21_Witness ==
    /\ InRun /\ ret.kind = "call" /\ ret.c.kind = "read"
    /\ LET k == build_key_serde(ret.c.label, ret.c.key)
       IN  k \in DOMAIN seeded /\ k \in DOMAIN hist /\ ~hist[k].stored
    /\ ret.res.ok /\ ~ret.res.some

\* C22: deleting a key that `current` does not hold returns success and leaves
\* `current` unchanged, and the diff reports no delete for a key that was never
\* in `initial`, so a key absent from both maps is recorded nowhere; for a
\* snapshot seeded {A:1, B:2}, after store A=1, store B=3, delete C, store D=4
\* the diff has upserts exactly {B:3, D:4} and no deletes.
C22_DeleteAbsentRecordsNothing ==
    [][/\ EngineCallStep("delete") =>
             LET c == ret'.c
                 k == build_key_serde(c.label, c.key)
             IN  k \notin DOMAIN current => (ret'.res = OkUnit /\ current' = current)
       /\ (InRun /\ pc = "snap" /\ pc' = "diffed") =>
             /\ \A i \in 1..Len(updates'.deletes) : updates'.deletes[i] \in DOMAIN initial
             /\ arg.kind = "script" =>
                   /\ {updates'.upserts[i] : i \in 1..Len(updates'.upserts)}
                         = {<<build_key_serde(KEY_PACKAGE_LABEL, RefB), <<51>>>>,
                            <<build_key_serde(KEY_PACKAGE_LABEL, RefD), <<52>>>>}
                   /\ Len(updates'.upserts) = 2
                   /\ updates'.deletes = <<>>]_vars

\* the snapshot seeded {A:1, B:2} was diffed after store A=1, store B=3,
\* delete C, store D=4
C22_Witness ==
    /\ arg.kind = "script" /\ arg.seed = SeedAB /\ arg.calls = ExampleCalls
    /\ nops = Len(ExampleCalls)
    /\ pc = "diffed"
    /\ Len(updates.upserts) = 2

\* C24: list entries keep insertion order and permit duplicates: an append
\* puts its item at the end of the list that was there, a remove takes out one
\* occurrence of its item and keeps the order of the rest, and a remove of an
\* item that is not in the list, or of a list key that does not exist, leaves
\* the stored entry as it was.
C24_ListsOrderedWithDuplicates ==
    [][(EngineCallStep("append") \/ EngineCallStep("remove")) =>
          LET c == ret'.c
              k == build_key_serde(c.label, c.key)
              l == ListOf(current, c)
              l2 == ListOf(current', c)
          IN  IF c.kind = "append" THEN l2 = Append(l, c.val)
              ELSE IF \E i \in 1..Len(l) : l[i] = c.val
              THEN \E i \in 1..Len(l) : l[i] = c.val /\ l2 = RemoveAt(l, i)
              ELSE /\ (k \in DOMAIN current') = (k \in DOMAIN current)
                   /\ k \in DOMAIN current => current'[k] = current[k]]_vars

\* the same item was appended twice and removed once: one occurrence is left
C24_Witness ==
    /\ InRun /\ pc = "snap" /\ nops = 3
    /\ ret.kind = "call" /\ ret.c.kind = "remove"
    /\ ListOf(current, ret.c) = <<ret.c.val>>

\* the kind of host primitive that matches a storage call
MatchingPrimitive(c) ==
    CASE c.kind \in {"read", "read_list"} -> "read"
      [] c.kind = "delete" -> "delete"
      [] OTHER -> "write"

\* the host primitives a storage call makes, in order
PrimitivesOf(c, log) ==
    CASE c.kind \in {"write", "read", "delete", "read_list"} -> <<MatchingPrimitive(c)>>
      [] c.kind = "append" -> <<"read", "write">>
      [] c.kind = "remove" -> IF Len(log) = 1 THEN <<"read">> ELSE <<"read", "write">>
      [] c.kind = "queue" -> <<"write", "read", "write">>

\* C25 as stated: every storage call on the callback adapter has become, by
\* the time it returns, exactly one call of the matching host primitive.
C25_OneCallOnePrimitive ==
    (call.status = "returned") =>
        /\ Len(call.log) = 1
        /\ call.log[1].do = MatchingPrimitive(call.c)

\* C25 as amended: a plain write, read or delete has become, by the time it
\* returns, exactly one call of the matching host primitive on the call's
\* composite key; a list append is one read followed by one write of the whole
\* list, a list remove one read followed by one write unless the key is
\* absent, queue_proposal a write followed by the read and write of its
\* append.  Every primitive has resolved before the call returns, and the host
\* holds what the call's last write or delete of each key left.
C25_PrimitivesPerCall ==
    (call.status = "returned" /\ call.res.ok) =>
        /\ [i \in 1..Len(call.log) |-> call.log[i].do] = PrimitivesOf(call.c, call.log)
        /\ call.stage = Len(call.log)
        /\ call.c.kind \in {"write", "read", "delete"} =>
              call.log[1].key = build_key_serde(call.c.label, call.c.key)
        /\ call.c.kind = "remove" => (Len(call.log) = 1 <=> ~call.got.some)
        /\ \A i \in 1..Len(call.log) :
              (\A j \in (i + 1)..Len(call.log) :
                  call.log[j].key # call.log[i].key \/ call.log[j].do = "read") =>
                    /\ call.log[i].do = "write" =>
                          (call.log[i].key \in DOMAIN host
                              /\ host[call.log[i].key] = call.log[i].val)
                    /\ call.log[i].do = "delete" => call.log[i].key \notin DOMAIN host

\* queue_proposal has returned after its three primitives
C25_Witness ==
    /\ call.status = "returned" /\ call.res.ok
    /\ call.c.kind = "queue"
    /\ Len(call.log) = 3

\* C26: when a host primitive rejects, the storage call that made it returns
\* a storage error to its caller.
C26_RejectionSurfacesError ==
    (call.status # "none" /\ call.rejected) =>
        (call.status = "returned" /\ ~call.res.ok)

\* C27: after every storage call the snapshot's `current` and the host store
\* behind the callback adapter hold the same keys and values, and the call
\* returned the same result on both.
C27_PathsInterchangeable ==
    (InRun /\ pc = "snap") =>
        /\ call.status = "none" => host = current
        /\ call.status = "returned" => (host = current /\ call.res = ret.res)

\* three calls in, a read of a list that was appended to returned the same
\* non-empty list on both paths
C27_Witness ==
    /\ InRun /\ pc = "snap" /\ nops = 3
    /\ call.status = "returned" /\ call.c.kind = "read_list"
    /\ call.res.list # <<>>
    /\ call.res = ret.res
    /\ host = current /\ host # seeded

\* C28: once the snapshot is consumed by the diff or dropped, both maps are
\* empty and no value buffer it held, a replaced or removed one included, was
\* released without being overwritten.
C28_EveryBufferOverwritten ==
    (InRun /\ pc \in {"diffed", "done"}) =>
        /\ initial = EmptyMap
        /\ current = EmptyMap
        /\ leaked = {}

\* no row of the store is scoped to the group `g`
GroupHasNoEntries(b, s, g) == \A k \in DOMAIN s : RowScope(b, s, k) # g

\* C23: a successful delete_group(g) on a group that has no row leaves the
\* store exactly as it was (so a second delete_group(g) changes nothing more).
C23_DeleteEmptyGroupIsNoOp ==
    [][(DeleteGroupStep /\ result' = "ok"
            /\ GroupHasNoEntries(backend, store, op'.gid)) =>
        store' = store]_vars

(***************************************************************************)
(* Stored values that no longer decrypt                                    *)
(***************************************************************************)
\* What can stand in the place of a stored blob on the sandboxed backend
\* without going through save_updates: a blob sealed under another key, a
\* blob whose bytes were altered, a blob cut below the length of the nonce.
DamageKinds == {"K2", Corrupted, TooShort}

DamagedBlob(blob, how) ==
    IF how = TooShort THEN [sealed_with |-> TooShort, plaintext |-> <<>>]
    ELSE [blob EXCEPT !.sealed_with = how]

\* the object store gets a blob under `k` that the engine's key does not open
Damage(k, how) ==
    /\ backend = "wasm"
    /\ pc = "idle"
    /\ ~tx.open
    /\ k \in idb_get_all_keys(store)
    /\ store' = [store EXCEPT ![k].value = DamagedBlob(store[k].value, how)]
    /\ UNCHANGED <<ext, rd, view, before, backend, tx, pc, op, initial, current, nops,
                   updates, result, seeded, final>>

NextDamage ==
    \/ \E hint \in Groups \cup {NULL} : OpLoadGlobal(hint)
    \/ \E g \in Groups : OpLoadForGroup(g)
    \/ \E e \in PlainEntities, v \in Values : StoreVal(e, v)
    \/ IntoUpdates
    \/ CommitEmpty
    \/ SaveBegin
    \/ SaveStmt
    \/ SaveCommit
    \/ Finish
    \/ \E k \in DOMAIN store, how \in DamageKinds : Damage(k, how)

SpecDamage == Init /\ [][NextDamage]_vars

\* the step in which a load of `kind` returns, with a snapshot or an error
LoadReturnStep(kind) == pc = "idle" /\ pc' \in {"snap", "done"} /\ op'.kind = kind

\* the data rows of the object store that the engine's key does not open
Undecryptable(s) ==
    {k \in (DOMAIN s) \ {WASM_META_KEY} : s[k].value.sealed_with # db.key}

\* the data rows a load of `kind` is to return
RowsToLoad(s, kind) ==
    {k \in (DOMAIN s) \ {WASM_META_KEY} : kind = "group" \/ is_global_key(k)}

\* C29 as stated: on the sandboxed backend, a load over a store in which any
\* value fails to decrypt returns an error.
C29_AnyDamageFailsEveryLoad ==
    [][(backend = "wasm" /\ (LoadReturnStep("global") \/ LoadReturnStep("group"))
            /\ Undecryptable(store) # {}) =>
        (pc' = "done" /\ result' = "err")]_vars

\* C29, amended: on the sandboxed backend, a load returns an error when a
\* value it is to return fails to decrypt (load_global: the values under
\* global keys; load_for_group: every value); a load that succeeds returns
\* every such row with the plaintext that was stored, none left out and none
\* emptied.
C29_DamagedRowFailsItsLoad ==
    [][\A kind \in {"global", "group"} :
          (backend = "wasm" /\ LoadReturnStep(kind)) =>
             IF RowsToLoad(store, kind) \cap Undecryptable(store) # {}
             THEN pc' = "done" /\ result' = "err" /\ current' = EmptyMap
             ELSE /\ pc' = "snap"
                  /\ DOMAIN current' = RowsToLoad(store, kind)
                  /\ \A k \in DOMAIN current' : current'[k] = store[k].value.plaintext]_vars

\* a load_for_group has just failed over a store that holds a blob cut short
\* beside a row that still decrypts
C29_Witness ==
    /\ backend = "wasm" /\ pc = "done" /\ op.kind = "group" /\ result = "err"
    /\ \E k \in DOMAIN store : store[k].value.sealed_with = TooShort
    /\ \E k \in (DOMAIN store) \ {WASM_META_KEY} : store[k].value.sealed_with = db.key

\* the step in which MlsEngine::commit returns
CommitReturnStep == pc \in {"diffed", "saving"} /\ pc' = "done"

\* C30: a commit that runs on a closed engine returns "MlsEngine is closed"
\* and leaves the store as it was; whenever close falls, a commit leaves the
\* store either as it was when the commit began or with every statement of
\* the changeset applied.
C30_CommitAfterCloseFails ==
    [][/\ (CommitReturnStep /\ pc = "diffed" /\ db.state = "closed") =>
             (result' = "closed" /\ store' = store)
       /\ (CommitReturnStep /\ pc = "diffed") => store' = store
       /\ (CommitReturnStep /\ pc = "saving") =>
             \/ store' = before.rows
             \/ store' = ApplyAll(before.rows, statements(backend, updates, op.hint))]_vars

(***************************************************************************)
(* MlsEngine::delete_group: load, delete the group in the snapshot,        *)
(* commit the changeset, then delete the group's rows in the store         *)
(***************************************************************************)
\* MlsEngine::delete_group begins: load_for_group(group_id)
EngineDeleteGroupLoad(group_id) ==
    /\ pc = "idle"
    /\ ~tx.open
    /\ MlsEngine_db(db).ok
    /\ Loaded(load_for_group(backend, store, group_id), "engine_delete_group", group_id, group_id)

\* the snapshot holds an entry of the group
GroupFound(cur, group_id) == {TreeKey(group_id), LeafNodesKey(group_id)} \cap DOMAIN cur # {}

\* load_group finds no group in the snapshot: delete_group returns the error
LoadGroupFail ==
    /\ pc = "snap"
    /\ op.kind = "engine_delete_group"
    /\ ~GroupFound(current, op.gid)
    /\ initial' = EmptyMap
    /\ current' = EmptyMap
    /\ pc' = "done"
    /\ result' = "err"
    /\ UNCHANGED <<ext, rd, view, before, backend, store, tx, op, nops, updates, seeded, final>>

\* group.delete(provider.storage()): delete_tree, delete_own_leaf_nodes
GroupDelete ==
    /\ pc = "snap"
    /\ op.kind = "engine_delete_group"
    /\ nops = 0
    /\ GroupFound(current, op.gid)
    /\ SnapshotCall(delete_val(delete_val(current, TREE_LABEL, op.gid),
                               OWN_LEAF_NODES_LABEL, op.gid))

\* MlsEngine::delete_group returns from self.db()?.delete_group with `res`,
\* leaving `s` behind
EngineDeleteGroupEnds(s, res) ==
    /\ store' = s
    /\ op' = [op EXCEPT !.kind = "delete_group"]
    /\ result' = res
    /\ before' = IF before.set THEN before ELSE [set |-> TRUE, rows |-> store]
    /\ UNCHANGED <<ext, rd, view, backend, tx, pc, initial, current, nops, updates, seeded, final>>

\* the last statement of MlsEngine::delete_group, reached when commit
\* returned Ok: EncryptedDb::delete_group, which succeeds or fails as it does
\* when called on its own
EngineDeleteGroupFinal ==
    /\ pc = "done"
    /\ op.kind = "engine_delete_group"
    /\ result = "ok"
    /\ ~tx.open
    /\ MlsEngine_db(db).ok
    /\ IF backend = "native"
       THEN \/ EngineDeleteGroupEnds(native_delete_group(store, op.gid), "ok")
            \/ EngineDeleteGroupEnds(store, "err")
       ELSE \E order \in Perms(wasm_delete_group_keys(store, op.gid)) :
               \/ EngineDeleteGroupEnds(DeleteAll(store, order), "ok")
               \/ \E i \in 0..Len(order) :
                  \E s \in TxDropped(backend, store, DeleteAll(store, SubSeq(order, 1, i))) :
                     EngineDeleteGroupEnds(s, "err")

\* an operation that writes is under way, not delete_group
Writing == op.kind = "group"
\* delete_group still has its last statement to run
DeleteGroupPending == pc = "done" /\ op.kind = "engine_delete_group" /\ result = "ok"

NextDelete ==
    \/ \E g \in Groups : OpLoadForGroup(g)
    \/ \E e \in PlainEntities, v \in Values : Writing /\ StoreVal(e, v)
    \/ \E e \in ListEntities, item \in Items : Writing /\ AppendToList(e, item)
    \/ \E g \in Groups : EngineDeleteGroupLoad(g)
    \/ LoadGroupFail
    \/ GroupDelete
    \/ ((op.kind = "engine_delete_group" => nops = 1) /\ IntoUpdates)
    \/ CommitEmpty
    \/ SaveBegin
    \/ SaveBeginFail
    \/ SaveStmt
    \/ SaveStmtFail
    \/ SaveCommit
    \/ SaveCommitFail
    \/ EngineDeleteGroupFinal
    \/ (~DeleteGroupPending /\ Finish)

SpecDelete == Init /\ [][NextDelete]_vars

\* the step in which MlsEngine::delete_group returns: with an error from its
\* load, load_group or commit, or from its last statement
EngineDeleteGroupReturnStep ==
    \/ pc # "done" /\ pc' = "done" /\ op'.kind = "engine_delete_group" /\ result' # "ok"
    \/ pc = "done" /\ op.kind = "engine_delete_group" /\ op'.kind = "delete_group"

\* the rows of the store when the operation under way was called
RowsAtCall == IF before.set THEN before.rows ELSE store

\* C31: when MlsEngine::delete_group returns an error the store holds the rows
\* it held when delete_group was called; when it returns Ok no row scoped to
\* the group remains and every other row is as it was.
C31_EngineDeleteGroupAllOrNothing ==
    [][EngineDeleteGroupReturnStep =>
        IF result' # "ok"
        THEN store' = RowsAtCall
        ELSE /\ \A k \in DOMAIN store' : RowScope(backend, store', k) # op'.gid
             /\ \A k \in DOMAIN RowsAtCall :
                   RowScope(backend, RowsAtCall, k) # op'.gid =>
                      (k \in DOMAIN store' /\ store'[k] = RowsAtCall[k])]_vars

(***************************************************************************)
(* The proposal queue of a group on the snapshot: queue_proposal,          *)
(* remove_proposal, clear_proposal_queue in any order                      *)
(***************************************************************************)
\* a snapshot seeded with one global entry, about to serve queue calls
InitQueue ==
    /\ backend = "native"
    /\ store = OpenedStore(backend)
    /\ tx = NoTx
    /\ pc = "snap"
    /\ op = NoOp
    /\ arg = [kind |-> "queue"]
    /\ initial = from_entries(MapPut(EmptyMap, KpKey, <<49>>)).initial
    /\ current = from_entries(MapPut(EmptyMap, KpKey, <<49>>)).current
    /\ nops = 0
    /\ updates = NoUpdates
    /\ result = "none"
    /\ seeded = MapPut(EmptyMap, KpKey, <<49>>)
    /\ final = EmptyMap
    /\ rd = NoRead
    /\ view = EmptyMap
    /\ before = NoBefore
    /\ db = OpenDb(CryptoKey)
    /\ disk = OpenedDisk(backend)
    /\ opening = NoOpening
    /\ other = NoOther
    /\ ret = NoRet
    /\ host = EmptyMap
    /\ call = NoCall
    /\ hist = EmptyMap
    /\ leaked = {}

\* a call on the proposal queue of `group_id` returned `res`
QueueCallReturns(name, group_id, res) ==
    /\ pc = "snap"
    /\ arg.kind = "queue"
    /\ nops < MaxCalls
    /\ current' = res.current
    /\ nops' = nops + 1
    /\ ret' = [kind |-> name, gid |-> group_id, ok |-> res.ok]
    /\ UNCHANGED <<paths, backend, store, tx, pc, op, initial, updates, result, rd, view,
                   seeded, final, before, db, disk, opening, other, arg>>

QueueProposal(group_id, proposal_ref, proposal) ==
    /\ Len(queued_proposal_refs(current, group_id).list) < MaxList
    /\ QueueCallReturns("queue_proposal", group_id,
                        queue_proposal(current, group_id, proposal_ref, proposal))

RemoveProposal(group_id, proposal_ref) ==
    QueueCallReturns("remove_proposal", group_id,
                     remove_proposal(current, group_id, proposal_ref))

ClearProposalQueue(group_id) ==
    QueueCallReturns("clear_proposal_queue", group_id, clear_proposal_queue(current, group_id))

NextQueue ==
    \/ \E g \in Groups, r \in ProposalRefs, p \in Values : QueueProposal(g, r, p)
    \/ \E g \in Groups, r \in ProposalRefs : RemoveProposal(g, r)
    \/ \E g \in Groups : ClearProposalQueue(g)

SpecQueue == InitQueue /\ [][NextQueue]_vars

\* the references of the group's list, as read_list returns them
RefsOf(cur, group_id) ==
    LET refs == queued_proposal_refs(cur, group_id).list
    IN  [i \in 1..Len(refs) |-> RefOf(refs[i])]

\* the references under which a queued proposal of the group is stored
StoredRefs(cur, group_id) ==
    {r \in ProposalRefs : build_key_pair(QUEUED_PROPOSAL_LABEL, group_id, r) \in DOMAIN cur}

\* C32: after any sequence of queue_proposal, remove_proposal and
\* clear_proposal_queue calls, every reference in a group's list has a stored
\* proposal, every stored proposal has its reference in the list, and
\* queued_proposals returns one pair per entry of queued_proposal_refs, in
\* the same order.
C32_QueueConsistent ==
    (arg.kind = "queue") =>
        \A g \in Groups :
            LET refs == RefsOf(current, g)
                pairs == queued_proposals(current, g).list
            IN  /\ {refs[i] : i \in 1..Len(refs)} = StoredRefs(current, g)
                /\ Len(pairs) = Len(refs)
                /\ \A i \in 1..Len(refs) : pairs[i][1] = refs[i]

\* C33: a clear_proposal_queue(g) that succeeds leaves g's list of references
\* absent and none of the proposals whose reference was in it; both queries
\* of g return nothing; every other entry is unchanged.
C33_ClearEmptiesQueue ==
    [][(arg.kind = "queue" /\ nops' = nops + 1
            /\ ret'.kind = "clear_proposal_queue" /\ ret'.ok) =>
        LET g == ret'.gid
            refs == RefsOf(current, g)
            gone == {build_key_serde(PROPOSAL_QUEUE_REFS_LABEL, g)}
                      \cup {build_key_pair(QUEUED_PROPOSAL_LABEL, g, refs[i]) : i \in 1..Len(refs)}
        IN  /\ gone \cap DOMAIN current' = {}
            /\ queued_proposals(current', g).list = <<>>
            /\ queued_proposal_refs(current', g).list = <<>>
            /\ \A k \in (DOMAIN current) \ gone : k \in DOMAIN current' /\ current'[k] = current[k]
            /\ DOMAIN current' \subseteq DOMAIN current]_vars

\* a queue of two proposals of one group was cleared while the other group's
\* queue and the global entry stayed
C33_Witness ==
    /\ arg.kind = "queue" /\ ret.kind = "clear_proposal_queue" /\ ret.ok /\ nops = 4
    /\ ret.gid = GroupA
    /\ StoredRefs(current, GroupA) = {}
    /\ RefsOf(current, GroupA) = <<>>
    /\ RefsOf(current, GroupB) # <<>>
    /\ StoredRefs(current, GroupB) # {}
    /\ KpKey \in DOMAIN current

\* C34: a snapshot that ends equal to its seed diffs to an empty changeset;
\* commit of an empty changeset returns Ok without opening a transaction or
\* touching the store; an operation that made no storage call, whether its
\* provider is dropped or committed, never begins a save and leaves the store
\* as it was.
C34_NoChangeNoWrite ==
    [][/\ (IntoUpdatesStep /\ current = seeded) =>
             (updates'.upserts = <<>> /\ updates'.deletes = <<>>)
       /\ (pc = "diffed" /\ updates = NoUpdates /\ pc' # pc) =>
             /\ pc' = "done" /\ result' = "ok"
             /\ store' = store /\ tx' = tx /\ before' = before
       /\ (pc \in {"snap", "diffed"} /\ nops = 0) =>
             (store' = store /\ tx' = tx /\ pc' # "saving")]_vars

\* an operation seeded with a row wrote the value the row already had, and its
\* commit returned Ok without a save having begun
C34_Witness ==
    /\ pc = "done" /\ result = "ok" /\ op.kind \in {"global", "group"}
    /\ nops > 0
    /\ seeded # EmptyMap /\ final = seeded
    /\ updates = NoUpdates
    /\ ~before.set
    /\ StoreContent(backend, store) # EmptyMap

\* C35: an open that fails on a store whose persisted version is below LATEST
\* leaves the persisted version and every row as they were, and on the native
\* backend leaves no mls_storage table behind, so that the next open runs the
\* same step from the same version.
C35_MigrationStepAllOrNothing ==
    [][(OpenStep /\ opening'.res # "ok"
            /\ PersistedVersion(backend, disk, store) < LATEST_SCHEMA_VERSION) =>
        /\ PersistedVersion(backend, disk', store') = PersistedVersion(backend, disk, store)
        /\ store' = store
        /\ backend = "native" => disk'.mls_storage = disk.mls_storage]_vars

\* C36: an open of a store whose persisted version equals LATEST leaves every
\* row, the persisted version and what persists beside the rows unchanged,
\* and when it succeeds it has run no migration step.
C36_OpenIdempotent ==
    [][(OpenStep /\ PersistedVersion(backend, disk, store) = LATEST_SCHEMA_VERSION) =>
        /\ store' = store
        /\ disk' = disk
        /\ PersistedVersion(backend, disk', store') = LATEST_SCHEMA_VERSION
        /\ opening'.res = "ok" => opening'.steps = <<>>]_vars

\* the second open of a store that holds a data row succeeded after a close,
\* without a migration step
C36_Witness ==
    /\ opening.n = 2 /\ opening.res = "ok" /\ opening.steps = <<>>
    /\ db.state = "open"
    /\ StoreContent(backend, store) # EmptyMap
    /\ PersistedVersion(backend, disk, store) = LATEST_SCHEMA_VERSION

\* C37: on the sandboxed backend no step of save_updates or delete_group
\* changes or removes the row under the reserved key, no load returns it, and
\* the version the next open would read is the one the migration wrote.
C37_ReservedKeyIsNotData ==
    [][backend = "wasm" =>
        /\ WASM_META_KEY \in DOMAIN store'
        /\ store'[WASM_META_KEY] = store[WASM_META_KEY]
        /\ (LoadGlobalStep \/ LoadForGroupStep) => WASM_META_KEY \notin DOMAIN initial'
        /\ idb_read_schema_version([id |-> CryptoKey, len |-> KEY_LEN], store')
              = [res |-> "ok", version |-> LATEST_SCHEMA_VERSION]]_vars

\* on the sandboxed backend a delete_group has removed the group's rows and
\* the row under the reserved key is still there
C37_Witness ==
    /\ backend = "wasm"
    /\ pc = "done" /\ op.kind = "delete_group" /\ result = "ok"
    /\ before.set /\ DOMAIN before.rows # DOMAIN store
    /\ WASM_META_KEY \in DOMAIN store
    /\ \E k \in DOMAIN store : is_global_key(k)

(***************************************************************************)
(* save_updates of the sandboxed backend, statement by statement: the      *)
(* encryption loop, the transaction, its requests, the commit              *)
(***************************************************************************)
\* the changesets handed to save_updates: upserts of distinct keys, then
\* deletes of other keys
Changesets ==
    {[upserts |-> ups, deletes |-> dels] :
        ups \in {<<>>} \cup {<<<<k, v>>>> : k \in PlainKeys, v \in Values}
                  \cup {<<<<k1, v1>>, <<k2, v2>>>> :
                           k1 \in PlainKeys, k2 \in PlainKeys, v1 \in Values, v2 \in {<<49>>}},
        dels \in {<<>>} \cup {<<k>> : k \in PlainKeys}}

\* an open store of the sandboxed backend, no call of save_updates yet
InitSave ==
    /\ backend = "wasm"
    /\ store = OpenedStore(backend)
    /\ tx = NoTx
    /\ pc = "idle"
    /\ op = NoOp
    /\ arg = [kind |-> "save_updates", updates |-> NoUpdates, rows |-> store]
    /\ initial = EmptyMap
    /\ current = EmptyMap
    /\ nops = 0
    /\ updates = NoUpdates
    /\ result = "none"
    /\ seeded = EmptyMap
    /\ final = EmptyMap
    /\ rd = NoRead
    /\ view = EmptyMap
    /\ before = NoBefore
    /\ db = OpenDb(CryptoKey)
    /\ disk = OpenedDisk(backend)
    /\ opening = NoOpening
    /\ other = NoOther
    /\ ret = NoRet
    /\ host = EmptyMap
    /\ call = [status |-> "returned", encrypted_upserts |-> <<>>, res |-> "none", log |-> <<>>]
    /\ hist = EmptyMap
    /\ leaked = {}

\* save_updates moves on: `c` is where it stands, `s` and `t` the store and
\* the transaction it leaves
SaveUpdatesStep(c, s, t) ==
    /\ call' = c
    /\ store' = s
    /\ tx' = t
    /\ UNCHANGED <<backend, pc, op, initial, current, nops, updates, result, rd, view, seeded,
                   final, before, db, disk, opening, other, ret, host, hist, leaked>>

\* EncryptedDb::save_updates is called with `u`
SaveUpdatesCall(u) ==
    /\ call.status = "returned"
    /\ u.upserts # <<>> \/ u.deletes # <<>>
    /\ \A i \in 1..Len(u.upserts), j \in 1..Len(u.deletes) : u.upserts[i][1] # u.deletes[j]
    /\ Len(u.upserts) = 2 => u.upserts[1][1] # u.upserts[2][1]
    /\ arg' = [kind |-> "save_updates", updates |-> u, rows |-> store]
    /\ SaveUpdatesStep([status |-> "encrypting", encrypted_upserts |-> <<>>, res |-> "none",
                        log |-> <<>>], store, tx)

\* the encryption loop: wasm_encrypt of the next upsert value
WasmEncryptUpsert ==
    /\ call.status = "encrypting"
    /\ Len(call.encrypted_upserts) < Len(arg.updates.upserts)
    /\ LET next == arg.updates.upserts[Len(call.encrypted_upserts) + 1]
       IN  SaveUpdatesStep(
               [call EXCEPT !.encrypted_upserts =
                                Append(@, <<next[1], wasm_encrypt(CryptoKey, next[2])>>),
                            !.log = Append(@, "encrypt")],
               store, tx)
    /\ UNCHANGED arg

\* a transaction opened before the encryption loop has run
WasmTxOpen_before_encrypting ==
    /\ call.status = "encrypting"
    /\ call.encrypted_upserts = <<>>
    /\ ~tx.open
    /\ SaveUpdatesStep([call EXCEPT !.log = Append(@, "tx_open")], store,
                       [open |-> TRUE, image |-> store, stmts |-> <<>>, idx |-> 1])
    /\ UNCHANGED arg

\* idb_open, db.transaction(ReadWrite), object_store: after the loop
WasmTxOpen ==
    /\ call.status = "encrypting"
    /\ Len(call.encrypted_upserts) = Len(arg.updates.upserts)
    /\ ~tx.open
    /\ LET enc == call.encrypted_upserts
           dels == arg.updates.deletes
           stmts == [i \in 1..(Len(enc) + Len(dels)) |->
                        IF i <= Len(enc)
                        THEN [kind |-> "put", key |-> enc[i][1], row |-> Row(enc[i][2], NULL)]
                        ELSE [kind |-> "del", key |-> dels[i - Len(enc)], row |-> Row(NULL, NULL)]]
       IN  SaveUpdatesStep([call EXCEPT !.status = "in_tx", !.log = Append(@, "tx_open")], store,
                           [open |-> TRUE, image |-> store, stmts |-> stmts, idx |-> 1])
    /\ UNCHANGED arg

\* store.put(..).await / store.delete(..).await: the next request succeeds
WasmTxRequest ==
    /\ call.status = "in_tx"
    /\ tx.idx <= Len(tx.stmts)
    /\ SaveUpdatesStep([call EXCEPT !.log = Append(@, tx.stmts[tx.idx].kind)], store,
                       [tx EXCEPT !.image = ApplyStmt(tx.image, tx.stmts[tx.idx]),
                                  !.idx = tx.idx + 1])
    /\ UNCHANGED arg

\* txn.commit().await succeeds
WasmTxCommit ==
    /\ call.status = "in_tx"
    /\ tx.idx > Len(tx.stmts)
    /\ SaveUpdatesStep([call EXCEPT !.status = "returned", !.res = "ok",
                                    !.log = Append(@, "commit")],
                       tx.image, NoTx)
    /\ UNCHANGED arg

\* save_updates leaves on `?`: from the encryption loop or idb_open, before
\* any transaction; from a request or the commit, dropping the transaction
WasmSaveFail ==
    /\ \/ /\ call.status = "encrypting"
          /\ SaveUpdatesStep(
                 [call EXCEPT !.status = "returned", !.res = "err",
                              !.log = Append(@, IF Len(call.encrypted_upserts)
                                                      < Len(arg.updates.upserts)
                                                THEN "encrypt_failed" ELSE "open_failed")],
                 store, tx)
       \/ /\ call.status = "in_tx"
          /\ \E s \in TxDropped(backend, store, tx.image) :
                SaveUpdatesStep([call EXCEPT !.status = "returned", !.res = "err",
                                             !.log = Append(@, "request_failed")],
                                s, NoTx)
    /\ UNCHANGED arg

NextSave ==
    \/ \E u \in Changesets : SaveUpdatesCall(u)
    \/ WasmEncryptUpsert
    \/ WasmTxOpen
    \/ WasmTxRequest
    \/ WasmTxCommit
    \/ WasmSaveFail

SpecSave == InitSave /\ [][NextSave]_vars

\* save_updates of the sandboxed backend is the operation under way
InSave == backend = "wasm" /\ arg.kind = "save_updates" /\ "log" \in DOMAIN call

\* C38: in a call of save_updates on the sandboxed backend no encryption
\* follows the opening of the transaction; while the transaction is open every
\* upsert value is already encrypted; a call in which an encryption failed
\* has opened no transaction and leaves the store as it was.
C38_EncryptBeforeTransaction ==
    InSave =>
        /\ \A i, j \in 1..Len(call.log) :
              (i < j /\ call.log[i] = "tx_open") => call.log[j] \notin {"encrypt", "encrypt_failed"}
        /\ tx.open => Len(call.encrypted_upserts) = Len(arg.updates.upserts)
        /\ (\E i \in 1..Len(call.log) : call.log[i] = "encrypt_failed") =>
              /\ call.status = "returned" /\ call.res = "err"
              /\ store = arg.rows
              /\ ~tx.open
              /\ \A i \in 1..Len(call.log) : call.log[i] # "tx_open"

\* a call with two upserts went through both encryptions, then the
\* transaction with its two requests, and committed
C38_Witness ==
    /\ InSave /\ call.status = "returned" /\ call.res = "ok"
    /\ call.log = <<"encrypt", "encrypt", "tx_open", "put", "put", "commit">>
    /\ store # arg.rows


(***************************************************************************)
(* EncryptedDb::open, statement by statement, and the caller's key buffer   *)
(***************************************************************************)
\* the bytes of the buffer a caller hands to open
KeyBytes(key) == [i \in 1..key.len |-> IF key.id = CryptoKey THEN 161 ELSE 178]

\* Zeroize for Vec<u8>: every byte of the buffer is overwritten with zero
zeroize(buf) == [i \in 1..Len(buf) |-> 0]

\* a new store, no call of open yet
InitKey ==
    /\ backend \in {"native", "wasm"}
    /\ store = EmptyMap
    /\ tx = NoTx
    /\ pc = "idle"
    /\ op = NoOp
    /\ arg = [kind |-> "open", key |-> [id |-> "none", len |-> 0]]
    /\ initial = EmptyMap
    /\ current = EmptyMap
    /\ nops = 0
    /\ updates = NoUpdates
    /\ result = "none"
    /\ seeded = EmptyMap
    /\ final = EmptyMap
    /\ rd = NoRead
    /\ view = EmptyMap
    /\ before = NoBefore
    /\ db = NoDb
    /\ disk = FreshDisk
    /\ opening = NoOpening
    /\ other = NoOther
    /\ ret = NoRet
    /\ host = EmptyMap
    /\ call = [status |-> "returned", at |-> "none", encryption_key |-> <<>>, res |-> "none"]
    /\ hist = EmptyMap
    /\ leaked = {}

\* open moves on to statement `at` with its buffer holding `buf`
OpenMoves(at, buf) ==
    /\ call' = [call EXCEPT !.at = at, !.encryption_key = buf]
    /\ UNCHANGED <<backend, store, tx, pc, op, arg, initial, current, nops, updates, result, rd,
                   view, seeded, final, before, db, disk, opening, other, ret, host, hist, leaked>>

\* open returns `res`, its buffer holding `buf`, the store left as `d`, `s`;
\* a buffer dropped with key bytes in it leaves them in memory
OpenReturns(res, buf, d, s) ==
    /\ call' = [call EXCEPT !.status = "returned", !.encryption_key = buf, !.res = res]
    /\ disk' = d
    /\ store' = s
    /\ db' = IF res = "ok" THEN OpenDb(arg.key.id) ELSE db
    /\ leaked' = IF \E i \in 1..Len(buf) : buf[i] # 0 THEN leaked \cup {buf} ELSE leaked
    /\ UNCHANGED <<backend, tx, pc, op, arg, initial, current, nops, updates, result, rd, view,
                   seeded, final, before, opening, other, ret, host, hist>>

\* EncryptedDb::open is called with `key`
OpenCall(key) ==
    /\ call.status = "returned"
    /\ opening.n < MaxOpens
    /\ SealedWith(backend, disk, store) = {} => key.id = CryptoKey
    /\ arg' = [kind |-> "open", key |-> key]
    /\ call' = [status |-> "running", at |-> "length_check", encryption_key |-> KeyBytes(key),
                res |-> "none"]
    /\ opening' = [opening EXCEPT !.n = opening.n + 1, !.key = key]
    /\ UNCHANGED <<backend, store, tx, pc, op, initial, current, nops, updates, result, rd, view,
                   seeded, final, before, db, disk, other, ret, host, hist, leaked>>

\* if encryption_key.len() != 32 { encryption_key.zeroize(); return Err(..) }
OpenLengthCheck ==
    /\ call.status = "running" /\ call.at = "length_check"
    /\ IF Len(call.encryption_key) # KEY_LEN
       THEN OpenReturns("config", zeroize(call.encryption_key), disk, store)
       ELSE OpenMoves(IF backend = "native" THEN "connect" ELSE "import_key",
                      call.encryption_key)

\* rusqlite::Connection::open(&db_path).map_err(..)?
NativeConnect ==
    /\ call.status = "running" /\ call.at = "connect"
    /\ \/ OpenMoves("pragma_key", call.encryption_key)
       \/ OpenReturns("io", call.encryption_key, disk, store)

\* hex_string(&encryption_key); encryption_key.zeroize(); PRAGMA key
NativePragmaKey ==
    /\ call.status = "running" /\ call.at = "pragma_key"
    /\ \/ OpenMoves("verify", zeroize(call.encryption_key))
       \/ OpenReturns("io", zeroize(call.encryption_key), disk, store)

\* SELECT count(*) FROM sqlite_master: fails under another key than the file's
NativeVerify ==
    /\ call.status = "running" /\ call.at = "verify"
    /\ IF disk.sealed_with \notin {"none", arg.key.id}
       THEN OpenReturns("wrong_key", call.encryption_key, disk, store)
       ELSE OpenMoves("run_migrations", call.encryption_key)

\* match wasm_import_key(&encryption_key).await: zeroize in both arms
WasmImportKey ==
    /\ call.status = "running" /\ call.at = "import_key"
    /\ \/ OpenMoves("validate", zeroize(call.encryption_key))
       \/ OpenReturns("io", zeroize(call.encryption_key), disk, store)

\* the trial wasm_encrypt / wasm_decrypt of "key_validation_test"
WasmValidate ==
    /\ call.status = "running" /\ call.at = "validate"
    /\ LET test_pt == wasm_decrypt(arg.key.id, wasm_encrypt(arg.key.id, <<116>>))
       IN  \/ OpenReturns("io", call.encryption_key, disk, store)
           \/ IF ~test_pt.ok \/ test_pt.plaintext # <<116>>
              THEN OpenReturns("decrypt", call.encryption_key, disk, store)
              ELSE OpenMoves("run_migrations", call.encryption_key)

\* db.run_migrations()?; Ok(db)
OpenRunMigrations ==
    /\ call.status = "running" /\ call.at = "run_migrations"
    /\ \E r \in (IF backend = "native" THEN native_run_migrations(arg.key, disk, store)
                 ELSE wasm_run_migrations(arg.key, disk, store)) :
          OpenReturns(r.res, call.encryption_key, r.disk, r.store)

NextKey ==
    \/ \E key \in OpenKeys : OpenCall(key)
    \/ OpenLengthCheck
    \/ NativeConnect
    \/ NativePragmaKey
    \/ NativeVerify
    \/ WasmImportKey
    \/ WasmValidate
    \/ OpenRunMigrations

SpecKey == InitKey /\ [][NextKey]_vars

\* a call of open has returned
OpenReturned == arg.kind = "open" /\ "at" \in DOMAIN call /\ call.status = "returned"
                    /\ call.res # "none"

\* C39: whenever open has returned, with whatever result, every byte of the
\* encryption_key buffer it was handed is zero.
C39_KeyZeroedOnEveryExit ==
    OpenReturned => \A i \in 1..Len(call.encryption_key) : call.encryption_key[i] = 0

====
